---- MODULE Spec2Model ----
(***************************************************************************)
(* The auto-reply decision engine of the LINE webhook: one decision run of *)
(* handleAutoReply (routes/webhook, the later of the two versions in       *)
(* src/packages/server/src/routes/settings.ts, lines 1627-1880) together   *)
(* with the parts of the knowledge service it calls (searchKnowledge,      *)
(* answerQuestion, logAutoReply in src/unnamed/part_003).                  *)
(*                                                                         *)
(* Several specifications share the module:                                *)
(*   Spec          one decision run of handleAutoReply, step by step;      *)
(*   AnswerSpec    calls of answerQuestion, step by step, over the         *)
(*                 knowledgeEntry table, with entries being (de)activated; *)
(*   HookSpec      webhook requests (POST /line) delivering batches of     *)
(*                 message events through handleMessageEvent to            *)
(*                 handleAutoReply;                                        *)
(*   AnalyzerSpec  the run behind checkBotNameMentioned and                *)
(*                 analyzeConversationWithAI, computed from the message    *)
(*                 text, the bot.name setting and the provider's report;   *)
(*   ScorerSpec    tokenize and calculateMatchScore for one query and one  *)
(*                 entry;                                                  *)
(*   TunnelSpec    the tunnel service: start and stop calls, exit events   *)
(*                 of the cloudflared processes and restart timers;        *)
(*   ClientSpec    the cached LINE client and the settings update that     *)
(*                 resets it.                                              *)
(*                                                                         *)
(* Texts are sequences of strings, so that concatenation and joining are   *)
(* computed; the empty text <<>> is JavaScript's falsy ''.                 *)
(***************************************************************************)
EXTENDS Integers, Sequences, FiniteSets, TLC

VARIABLES
    pc,                  \* position of the run inside handleAutoReply
    settings,            \* the settings store as read by getSettings()
    group,               \* the lineGroup row of the message's group
    knowledge,           \* the knowledge base: entry id -> state of the entry
    event,               \* the inbound message event
    analysis,            \* what analyzeConversationWithAI returns for the conversation
    isQuestion,          \* local of handleAutoReply
    questionConfidence,  \* local of handleAutoReply
    unansweredQuestions, \* local of handleAutoReply
    searchResults,       \* local of handleAutoReply: <<>> until the search returned
    didReply,            \* local of handleAutoReply
    replyAnswer,         \* local of handleAutoReply
    replies,             \* texts delivered through replyMessage
    logs,                \* rows of the autoReplyLog table
    issues,              \* rows of the issue table
    failed,              \* which collaborator threw during the run ("none" if none)
    knowledgeEntry,      \* rows of the knowledgeEntry table: id -> isActive, embedded, usageCount
    call,                \* the answerQuestion calls: call -> position and locals
    edits,               \* number of (de)activations of knowledge entries so far
    delivery,            \* the webhook requests: request -> batch, position, response
    message,             \* lineMessageId of every row of the message table
    running,             \* the request whose handleAutoReply call is in progress (0 if none)
    runs,                \* lineMessageId of every message handleAutoReply was called for
    content,             \* the text of the inbound message, character by character
    botName,             \* settings['bot.name']
    reported,            \* what the AI provider's analyzeConversation returned (or that it threw)
    scoring,             \* one scoring of an entry: query, entry, tokens, result
    tunnel,              \* the TunnelService singleton: process, url, stopping
    procs,               \* the cloudflared processes spawned so far: pid -> state
    starts,              \* the calls of autoStart/startByMode: call -> position, origin, mode
    stops,               \* the calls of stop(): call -> position, process waited for
    timers,              \* restart timers scheduled by exit handlers and not yet fired
    lastRequest,         \* the last request a client of the tunnel routes made
    accessToken,         \* the setting row 'line.channelAccessToken'
    clientInstance,      \* the cached LINE client: the token it was built from (0 if null)
    getting,             \* the calls of getLineClient: call -> position, token read
    updating             \* the settings updates (PUT /): update -> position, new token

\* the state of the answerQuestion calls
answerVars == <<knowledgeEntry, call, edits>>

\* the state of the webhook requests
hookVars == <<delivery, message, running, runs>>

\* the inputs of the bot-name check and of the conversation analyzer
analyzerVars == <<content, botName, reported>>

\* the state of the tokenizer and the lexical scorer taken alone
scorerVars == <<scoring>>

\* the state of the tunnel service and of its cloudflared processes
tunnelVars == <<tunnel, procs, starts, stops, timers, lastRequest>>

\* the state of the cached LINE client and of the token setting
clientVars == <<accessToken, clientInstance, getting, updating>>

\* the state the run, the answerQuestion calls and the webhook requests leave alone
laterVars == <<analyzerVars, scorerVars, tunnelVars, clientVars>>

vars == <<pc, settings, group, knowledge, event, analysis, isQuestion, questionConfidence,
          unansweredQuestions, searchResults, didReply, replyAnswer, replies,
          logs, issues, failed, answerVars, hookVars, laterVars>>

\* the analyzer inputs while the bot-name check and the analyzer are not modelled
AnalyzerIdle ==
    /\ content = <<>>
    /\ botName = <<>>
    /\ reported = <<>>

\* the scoring while the tokenizer and the scorer are not taken alone
ScorerIdle == scoring = <<>>

\* the tunnel service while it is not modelled
TunnelIdle ==
    /\ tunnel = <<>>
    /\ procs = <<>>
    /\ starts = <<>>
    /\ stops = <<>>
    /\ timers = 0
    /\ lastRequest = "none"

\* the LINE client while it is not modelled
ClientIdle ==
    /\ accessToken = 0
    /\ clientInstance = 0
    /\ getting = <<>>
    /\ updating = <<>>

LaterIdle ==
    /\ AnalyzerIdle
    /\ ScorerIdle
    /\ TunnelIdle
    /\ ClientIdle

-----------------------------------------------------------------------------
(* Bounds of the model *)

\* longest list of unanswered questions the analyzer reports
MaxUnanswered == 4

(* Program constants *)

\* unansweredQuestions.slice(-3)
MaxSearched == 3
\* question confidence assumed when the bot is named or the chat is direct
ForcedConfidence == 100
\* knowledgeId: null
NullId == -1
\* id of the stand-in entry searchKnowledge builds when no source is cited
NoSourceId == 0

-----------------------------------------------------------------------------
(* Texts *)

Digits == <<"1", "2", "3", "4", "5", "6", "7">>

EmptyText == <<>>
\* a null / undefined text (distinct from the empty string)
NullText == <<"<null>">>
\* the raw text of the inbound message
RawMessage == <<"msg">>
\* the i-th question the analyzer extracted, oldest first
QuestionText(i) == <<"Q", Digits[i]>>
\* the answer the generator writes for a question
GeneratedAnswer(q) == <<"answer-to">> \o q
\* the stored answer of a knowledge entry
EntryAnswer(id) == <<"entry", Digits[id]>>

DefaultNotFoundReply == <<"sorry-cannot-answer">>
CustomNotFoundReply == <<"configured-not-found">>

\* Array.prototype.join
RECURSIVE Join(_, _)
Join(parts, sep) ==
    IF parts = <<>> THEN EmptyText
    ELSE IF Len(parts) = 1 THEN parts[1]
    ELSE parts[1] \o sep \o Join(Tail(parts), sep)

\* Array.prototype.slice(-n)
SliceLast(s, n) ==
    IF Len(s) <= n THEN s ELSE SubSeq(s, Len(s) - n + 1, Len(s))

Max(a, b) == IF a >= b THEN a ELSE b

Min(a, b) == IF a <= b THEN a ELSE b

-----------------------------------------------------------------------------
(* Inputs *)

Thresholds == {50, 70}
AnalyzerConfidences == {0, 49, 50, 80}
KnowledgeConfidences == {30, 50, 80}
EntryIds == {1}

\* the knowledge bases considered: empty, only an inactive entry, an active entry
\* without embedding, an active entry with embedding
KnowledgeBases == [EntryIds -> {"absent", "inactive", "active", "embedded"}]

UnansweredLists ==
    {[i \in 1..n |-> QuestionText(i)] : n \in 0..MaxUnanswered} \cup {<<EmptyText>>}

-----------------------------------------------------------------------------
(* Knowledge service: answerQuestion and searchKnowledge *)

CannotAnswer ==
    [answer |-> EmptyText, confidence |-> 0, sources |-> <<>>, canAnswer |-> FALSE]

\* prisma.knowledgeEntry.findMany({ where: { isActive: true } })
ActiveEntries == {e \in EntryIds : knowledge[e] \in {"active", "embedded"}}

\* the entries the embedding index holds (getEmbeddingStats().embedded counts them)
EmbeddedEntries == {e \in EntryIds : knowledge[e] = "embedded"}

\* what searchByVector may return: any set of indexed entries above the similarity
\* threshold; an error is caught and leaves the list empty
VectorResults ==
    IF EmbeddedEntries # {} THEN SUBSET EmbeddedEntries ELSE {{}}

\* answerQuestion without its return on an empty entry list
EntriesToUse_NoEmptyCheck(vectorResults) ==
    IF vectorResults # {}
    THEN {vectorResults}
    ELSE SUBSET ActiveEntries

\* the candidate lists answerQuestion may hand to the generator, or {} when it
\* returns before generating (no active entry on the lexical path)
EntriesToUse(vectorResults) ==
    IF vectorResults # {}
    THEN {vectorResults}
    ELSE IF ActiveEntries = {}
         THEN {}
         ELSE (SUBSET ActiveEntries) \ {{}}

\* an answer made of counter-questions: three question marks
QuestionListAnswer(q) == <<"?", "?", "?">> \o q

\* the results generateAnswerWithFallback may return for a query and candidates
GeneratorResults(q, candidates) ==
    {[answer |-> GeneratedAnswer(q), confidence |-> c, sources |-> <<e>>, canAnswer |-> b] :
        c \in KnowledgeConfidences, e \in candidates, b \in BOOLEAN}
    \cup
    {[answer |-> GeneratedAnswer(q), confidence |-> c, sources |-> <<>>, canAnswer |-> b] :
        c \in KnowledgeConfidences, b \in BOOLEAN}
    \cup
    {[answer |-> EmptyText, confidence |-> c, sources |-> <<e>>, canAnswer |-> TRUE] :
        c \in KnowledgeConfidences, e \in candidates}
    \cup
    {[answer |-> QuestionListAnswer(q), confidence |-> c, sources |-> <<e>>, canAnswer |-> TRUE] :
        c \in KnowledgeConfidences, e \in candidates}

\* the characters /？|\?/ matches: the full-width and the ASCII question mark
QuestionMarks == {"?w", "?"}

\* the characters /•|·/ matches: the bullet and the middle dot
BulletMarkers == {"*b", "*m"}

\* number of question marks at which an answer is taken for a list of questions
MinQuestionMarks == 3

\* number of bullet markers at which an answer is taken for a list of questions
MinBullets == 5

\* (text.match(/.../g) || []).length for a character class
RECURSIVE CountOf(_, _)
CountOf(text, chars) ==
    IF text = <<>> THEN 0
    ELSE (IF Head(text) \in chars THEN 1 ELSE 0) + CountOf(Tail(text), chars)

\* number of question marks in an answer
QuestionMarkCount(text) == CountOf(text, QuestionMarks)

\* number of bullet markers in an answer
BulletCount(text) == CountOf(text, BulletMarkers)

\* the safety check that rejects every answer holding a question mark
LooksLikeQuestionList_AnyQuestionMark(answer) ==
    QuestionMarkCount(answer) >= 1 \/ BulletCount(answer) >= MinBullets

\* questionMarkCount >= 3 || bulletCount >= 5
LooksLikeQuestionList(answer) ==
    QuestionMarkCount(answer) >= MinQuestionMarks \/ BulletCount(answer) >= MinBullets

\* the safety check on a generated answer
SafetyFilter(result) ==
    IF result.canAnswer /\ result.answer # EmptyText /\ LooksLikeQuestionList(result.answer)
    THEN [result EXCEPT !.canAnswer = FALSE, !.confidence = 0]
    ELSE result

\* every result answerQuestion may return for a query
AnswerQuestion(q) ==
    IF ~group.autoReplyEnabled
    THEN {CannotAnswer}
    ELSE LET candidateLists == UNION {EntriesToUse(v) : v \in VectorResults}
         IN  IF candidateLists = {}
             THEN {CannotAnswer}
             ELSE {CannotAnswer}    \* the generator threw: caught, cannot answer
                  \cup {SafetyFilter(r) :
                           r \in UNION {GeneratorResults(q, c) : c \in candidateLists}}

\* searchKnowledge's null
NoResult(q) ==
    [found |-> FALSE, question |-> q, confidence |-> 0, generatedAnswer |-> EmptyText,
     entryId |-> NullId, entryAnswer |-> EmptyText]

\* searchKnowledge's value for one result of answerQuestion
ToSearchResult(q, result) ==
    IF ~result.canAnswer
    THEN NoResult(q)
    ELSE IF result.sources # <<>> /\ knowledge[result.sources[1]] # "absent"
         THEN [found |-> TRUE, question |-> q, confidence |-> result.confidence,
               generatedAnswer |-> result.answer,
               entryId |-> result.sources[1],
               entryAnswer |-> EntryAnswer(result.sources[1])]
         ELSE [found |-> TRUE, question |-> q, confidence |-> result.confidence,
               generatedAnswer |-> result.answer,
               entryId |-> NoSourceId, entryAnswer |-> result.answer]

SearchKnowledge(q) == {ToSearchResult(q, r) : r \in AnswerQuestion(q)}

\* Promise.all(questionsToSearch.map(q => searchKnowledge(q, groupId)))
RECURSIVE SearchAll(_)
SearchAll(questions) ==
    IF questions = <<>> THEN {<<>>}
    ELSE {<<r>> \o rest : r \in SearchKnowledge(Head(questions)),
                          rest \in SearchAll(Tail(questions))}

-----------------------------------------------------------------------------
(* Conversation analyzer, as seen by handleAutoReply *)

\* every value analyzeConversationWithAI may return; the value on an analysis failure
\* (a question may exist, no list, confidence 50) and the one for an empty window
\* (no question, confidence 0) are among them
AnalysisResults ==
    {[hasUnansweredQuestion |-> h, unansweredQuestions |-> l, confidence |-> c] :
        h \in BOOLEAN, l \in UnansweredLists, c \in AnalyzerConfidences}

-----------------------------------------------------------------------------
(* handleAutoReply: the values it computes *)

\* the bot was named or the chat is direct: question detection is skipped
Forced == event.botNameMentioned \/ event.isPrivateChat

\* what the run assumes instead of an analysis when it is forced
ForcedAnalysis ==
    [hasUnansweredQuestion |-> TRUE, unansweredQuestions |-> <<>>,
     confidence |-> ForcedConfidence]

\* settings['bot.notFoundReply'] || <default text>
NotFoundReply ==
    IF settings.notFoundReply # EmptyText THEN settings.notFoundReply ELSE DefaultNotFoundReply

\* the text used for the knowledge search when a single question is searched
ExtractedQuestion(unanswered) ==
    IF Len(unanswered) > 0 /\ unanswered[1] # EmptyText THEN unanswered[1] ELSE RawMessage

\* the first three questions instead of the last three: slice(0, 3)
QuestionsToSearch_FirstThree(unanswered) ==
    IF Len(unanswered) > 1
    THEN SubSeq(unanswered, 1, IF Len(unanswered) < MaxSearched THEN Len(unanswered) ELSE MaxSearched)
    ELSE <<ExtractedQuestion(unanswered)>>

QuestionsToSearch(unanswered) ==
    IF Len(unanswered) > 1
    THEN SliceLast(unanswered, MaxSearched)
    ELSE <<ExtractedQuestion(unanswered)>>

\* any knowledge result counts as answered, whatever its confidence
IsAnswered_AnyResult(sr) == sr.found

\* sr.result && conf >= confidenceThreshold
IsAnswered(sr) == sr.found /\ sr.confidence >= settings.confidenceThreshold

IsUnanswered(sr) == ~IsAnswered(sr)

\* result.generatedAnswer || result.entry.answer
AnswerOf(sr) ==
    IF sr.generatedAnswer # EmptyText THEN sr.generatedAnswer ELSE sr.entryAnswer

AnsweredParts == SelectSeq(searchResults, IsAnswered)

UnansweredParts == SelectSeq(searchResults, IsUnanswered)

RECURSIVE MaxConfidence(_)
MaxConfidence(results) ==
    IF results = <<>> THEN 0
    ELSE Max(Head(results).confidence, MaxConfidence(Tail(results)))

BestConfidence == MaxConfidence(searchResults)

HasAnyAnswer == Len(AnsweredParts) > 0

\* the reply decision without the direct-chat case
ShouldReply_NamedOnly == HasAnyAnswer \/ event.botNameMentioned

ShouldReply == HasAnyAnswer \/ event.botNameMentioned \/ event.isPrivateChat

\* the numbered block of one question in a multi-question reply; "[Q", idx, "]"
\* stands for the heading the code writes before the question text
Block(idx, q, body) == <<"[Q", Digits[idx], "]">> \o q \o <<"\n">> \o body

\* the numbering starts again at 1 for the questions without an answer
ReplyParts_RestartNumbering ==
    [i \in 1..Len(AnsweredParts) |->
        Block(i, AnsweredParts[i].question, AnswerOf(AnsweredParts[i]))]
    \o
    [i \in 1..Len(UnansweredParts) |->
        Block(i, UnansweredParts[i].question, NotFoundReply)]

\* the blocks of a multi-question reply: the answered questions, then the others
ReplyParts ==
    [i \in 1..Len(AnsweredParts) |->
        Block(i, AnsweredParts[i].question, AnswerOf(AnsweredParts[i]))]
    \o
    [i \in 1..Len(UnansweredParts) |->
        Block(Len(AnsweredParts) + i, UnansweredParts[i].question, NotFoundReply)]

\* the reply text when at least one question was answered
MatchedReply ==
    IF Len(AnsweredParts) + Len(UnansweredParts) > 1
    THEN Join(ReplyParts, <<"\n\n">>)
    ELSE AnswerOf(AnsweredParts[1])

\* a forced reply that shows a match below the threshold when there is one
ForcedReply_PartialMatch ==
    IF searchResults[1].found THEN AnswerOf(searchResults[1]) ELSE NotFoundReply

\* the reply text when the bot was named or the chat is direct and nothing matched
ForcedReply == NotFoundReply

\* the text handed to replyMessage
ReplyText == IF HasAnyAnswer THEN MatchedReply ELSE ForcedReply

\* the row logAutoReply writes after a knowledge reply
MatchedLog ==
    [question |-> Join([i \in 1..Len(searchResults) |-> searchResults[i].question], <<" | ">>),
     answer |-> MatchedReply,
     knowledgeId |-> AnsweredParts[1].entryId,
     matched |-> TRUE,
     confidence |-> BestConfidence]

\* the row logAutoReply writes after a forced reply without a match
ForcedLog ==
    [question |-> RawMessage, answer |-> NotFoundReply, knowledgeId |-> NullId,
     matched |-> FALSE, confidence |-> 0]

\* the row logAutoReply writes when no reply is sent
NoReplyLog ==
    [question |-> RawMessage, answer |-> NullText, knowledgeId |-> NullId,
     matched |-> FALSE, confidence |-> BestConfidence]

\* the row createIssueForQuestion writes
IssueRow(autoReplied, autoReplyAnswer) ==
    [status |-> IF autoReplied THEN "REPLIED" ELSE "PENDING",
     repliedAt |-> IF autoReplied THEN "now" ELSE "unset",
     suggestedReply |-> autoReplyAnswer]

\* replyAnswer || undefined
OrUndefined(text) == IF text = EmptyText THEN NullText ELSE text

\* isQuestion && questionConfidence >= confidenceThreshold
QuestionTestPassed ==
    isQuestion /\ questionConfidence >= settings.confidenceThreshold

-----------------------------------------------------------------------------
(* One decision run of handleAutoReply *)

Init ==
    /\ pc = "start"
    /\ settings \in [autoReply : BOOLEAN,
                     confidenceThreshold : Thresholds,
                     notFoundReply : {EmptyText, CustomNotFoundReply}]
    /\ group \in [autoReplyEnabled : BOOLEAN]   \* handleMessageEvent created the row
    /\ knowledge \in KnowledgeBases
    /\ event \in [botNameMentioned : BOOLEAN, isPrivateChat : BOOLEAN, replyToken : BOOLEAN]
    /\ analysis \in IF Forced THEN {ForcedAnalysis} ELSE AnalysisResults
    /\ isQuestion = FALSE
    /\ questionConfidence = 0
    /\ unansweredQuestions = <<>>
    /\ searchResults = <<>>
    /\ didReply = FALSE
    /\ replyAnswer = NullText
    /\ replies = <<>>
    /\ logs = <<>>
    /\ issues = <<>>
    /\ failed = "none"
    /\ knowledgeEntry = <<>>
    /\ call = <<>>
    /\ edits = 0
    /\ delivery = <<>>
    /\ message = {}
    /\ running = 0
    /\ runs = <<>>
    /\ LaterIdle

\* the catch block of handleAutoReply: the error is logged and the run ends
Caught(what) ==
    /\ failed' = what
    /\ pc' = "done"

\* getSettings, the group lookup and the per-group switch
LoadSettings ==
    /\ pc = "start"
    /\ \/ /\ Caught("settings")
       \/ /\ ~group.autoReplyEnabled
          /\ pc' = "done"
          /\ UNCHANGED failed
       \/ /\ group.autoReplyEnabled
          /\ pc' = "analyze"
          /\ UNCHANGED failed
    /\ UNCHANGED <<settings, group, knowledge, event, analysis, isQuestion, questionConfidence,
                   unansweredQuestions, searchResults, didReply, replyAnswer,
                   replies, logs, issues>>
    /\ UNCHANGED <<answerVars, hookVars, laterVars>>

\* steps 1 and 2: bot-name check, question detection, and the two gates
Analyze ==
    /\ pc = "analyze"
    /\ LET a == IF Forced THEN ForcedAnalysis ELSE analysis
           passed == a.hasUnansweredQuestion
                     /\ a.confidence >= settings.confidenceThreshold
           shouldProcess == Forced \/ passed
       IN /\ isQuestion' = a.hasUnansweredQuestion
          /\ questionConfidence' = a.confidence
          /\ unansweredQuestions' = a.unansweredQuestions
          /\ pc' = IF ~settings.autoReply
                   THEN (IF passed THEN "track" ELSE "done")
                   ELSE (IF shouldProcess THEN "search" ELSE "done")
    /\ UNCHANGED <<settings, group, knowledge, event, analysis, searchResults, didReply,
                   replyAnswer, replies, logs, issues, failed>>
    /\ UNCHANGED <<answerVars, hookVars, laterVars>>

\* auto-reply switched off in the settings: the question is tracked only
TrackOnly ==
    /\ pc = "track"
    /\ \/ /\ issues' = Append(issues, IssueRow(FALSE, NullText))
          /\ pc' = "done"
          /\ UNCHANGED failed
       \/ /\ Caught("issue")
          /\ UNCHANGED issues
    /\ UNCHANGED <<settings, group, knowledge, event, analysis, isQuestion, questionConfidence,
                   unansweredQuestions, searchResults, didReply, replyAnswer,
                   replies, logs>>
    /\ UNCHANGED <<answerVars, hookVars, laterVars>>

\* step 3: the knowledge search for every question to search
Search ==
    /\ pc = "search"
    /\ \/ /\ \E results \in SearchAll(QuestionsToSearch(unansweredQuestions)) :
                searchResults' = results
          /\ pc' = "reply"
          /\ UNCHANGED failed
       \/ /\ Caught("search")
          /\ UNCHANGED searchResults
    /\ UNCHANGED <<settings, group, knowledge, event, analysis, isQuestion, questionConfidence,
                   unansweredQuestions, didReply, replyAnswer, replies, logs, issues>>
    /\ UNCHANGED <<answerVars, hookVars, laterVars>>

\* step 4, shouldReply with a reply token: replyMessage
SendReply ==
    /\ pc = "reply"
    /\ ShouldReply
    /\ event.replyToken
    /\ \/ /\ replies' = Append(replies, ReplyText)
          /\ replyAnswer' = ReplyText
          /\ didReply' = TRUE
          /\ pc' = "log"
          /\ UNCHANGED failed
       \/ /\ Caught("send")
          /\ replyAnswer' = IF HasAnyAnswer THEN MatchedReply ELSE replyAnswer
          /\ UNCHANGED <<replies, didReply>>
    /\ UNCHANGED <<settings, group, knowledge, event, analysis, isQuestion, questionConfidence,
                   unansweredQuestions, searchResults, logs, issues>>
    /\ UNCHANGED <<answerVars, hookVars, laterVars>>

\* step 4, shouldReply without a reply token: nothing is sent and nothing is logged
SkipReply ==
    /\ pc = "reply"
    /\ ShouldReply
    /\ ~event.replyToken
    /\ pc' = "issue"
    /\ UNCHANGED <<settings, group, knowledge, event, analysis, isQuestion, questionConfidence,
                   unansweredQuestions, searchResults, didReply, replyAnswer,
                   replies, logs, issues, failed>>
    /\ UNCHANGED <<answerVars, hookVars, laterVars>>

\* step 4, not shouldReply: only the log is written
NoReply ==
    /\ pc = "reply"
    /\ ~ShouldReply
    /\ pc' = "log"
    /\ UNCHANGED <<settings, group, knowledge, event, analysis, isQuestion, questionConfidence,
                   unansweredQuestions, searchResults, didReply, replyAnswer,
                   replies, logs, issues, failed>>
    /\ UNCHANGED <<answerVars, hookVars, laterVars>>

\* the row the run logs in its branch
LogRow ==
    IF didReply
    THEN (IF HasAnyAnswer THEN MatchedLog ELSE ForcedLog)
    ELSE NoReplyLog

\* logAutoReply
WriteLog ==
    /\ pc = "log"
    /\ \/ /\ logs' = Append(logs, LogRow)
          /\ pc' = "issue"
          /\ UNCHANGED failed
       \/ /\ Caught("log")
          /\ UNCHANGED logs
    /\ UNCHANGED <<settings, group, knowledge, event, analysis, isQuestion, questionConfidence,
                   unansweredQuestions, searchResults, didReply, replyAnswer,
                   replies, issues>>
    /\ UNCHANGED <<answerVars, hookVars, laterVars>>

\* step 5 as an upsert: the run rewrites the newest Issue where there is one
CreateIssue_Overwrites ==
    /\ pc = "issue"
    /\ \/ /\ IF QuestionTestPassed
             THEN issues' = IF issues = <<>>
                            THEN <<IssueRow(didReply, OrUndefined(replyAnswer))>>
                            ELSE [issues EXCEPT ![Len(issues)] =
                                      IssueRow(didReply, OrUndefined(replyAnswer))]
             ELSE UNCHANGED issues
          /\ pc' = "done"
          /\ UNCHANGED failed
       \/ /\ QuestionTestPassed
          /\ Caught("issue")
          /\ UNCHANGED issues
    /\ UNCHANGED <<settings, group, knowledge, event, analysis, isQuestion, questionConfidence,
                   unansweredQuestions, searchResults, didReply, replyAnswer,
                   replies, logs>>
    /\ UNCHANGED <<answerVars, hookVars, laterVars>>

\* step 5: the Issue of the question
CreateIssue ==
    /\ pc = "issue"
    /\ \/ /\ IF QuestionTestPassed
             THEN issues' = Append(issues, IssueRow(didReply, OrUndefined(replyAnswer)))
             ELSE UNCHANGED issues
          /\ pc' = "done"
          /\ UNCHANGED failed
       \/ /\ QuestionTestPassed
          /\ Caught("issue")
          /\ UNCHANGED issues
    /\ UNCHANGED <<settings, group, knowledge, event, analysis, isQuestion, questionConfidence,
                   unansweredQuestions, searchResults, didReply, replyAnswer,
                   replies, logs>>
    /\ UNCHANGED <<answerVars, hookVars, laterVars>>

Next ==
    \/ LoadSettings
    \/ Analyze
    \/ TrackOnly
    \/ Search
    \/ SendReply
    \/ SkipReply
    \/ NoReply
    \/ WriteLog
    \/ CreateIssue

Spec == Init /\ [][Next]_vars

-----------------------------------------------------------------------------
(* Knowledge service: the lexical scorer (tokenize, calculateMatchScore,   *)
(* findRelevantEntries). A text is the sequence of its characters; the     *)
(* Chinese characters are written by their reading: "ru" "he" "jian" "ke"  *)
(* is the question 'how to create a course', "tui" "fei" is 'refund'.      *)

\* number of rows of the knowledgeEntry table
MaxEntries == 7

KnowledgeIds == 1..MaxEntries

\* /[一-龥]/: the Chinese characters of the texts considered
ChineseChars == {"ru", "he", "jian", "ke", "tui", "fei", "zen", "me", "li", "cheng"}

\* the characters tokenize replaces by a space
Punctuation == {"?w", "?", "!", ","}

\* String.prototype.toLowerCase
ToLowerCase(text) == [i \in DOMAIN text |-> IF text[i] = "A" THEN "a" ELSE text[i]]

\* the stop words among the texts considered: 'how' ("ru" "he") and the particle "ma"
STOP_WORDS == {<<"ru", "he">>, <<"zen", "me">>, <<"ma">>}

\* the queries considered: 'How to create a course?', and a Latin word that no
\* entry holds
CourseQuery == <<"ru", "he", "jian", "ke", "?w">>
LatinQuery == <<"A", "a">>
Queries == {CourseQuery, LatinQuery}

\* the question, answer and keywords of the entry with a given id: entry 3 is
\* about refunds only; the other odd entries are about refunds, name course
\* creation twice in their answer and have it as keyword; the even entries have
\* the course question itself
KnowledgeQuestion(id) ==
    IF id % 2 = 0 THEN <<"ru", "he", "jian", "ke">> ELSE <<"tui", "fei">>

KnowledgeAnswer(id) ==
    IF id % 2 = 0 THEN <<"o", "k">>
    ELSE IF id = 3 THEN <<"tui", "fei">>
    ELSE <<"jian", "ke", ",", "jian", "ke">>

KnowledgeKeywords(id) ==
    IF id % 2 = 1 /\ id # 3 THEN {<<"jian", "ke">>} ELSE {}

\* String.prototype.includes
Includes(text, part) ==
    \E k \in 0..(Len(text) - Len(part)) : SubSeq(text, k + 1, k + Len(part)) = part

\* (text.match(new RegExp(token, 'g')) || []).length: the matches found from left
\* to right, none overlapping another
RECURSIVE MatchCount(_, _)
MatchCount(text, token) ==
    IF Len(text) < Len(token) THEN 0
    ELSE IF SubSeq(text, 1, Len(token)) = token
         THEN 1 + MatchCount(SubSeq(text, Len(token) + 1, Len(text)), token)
         ELSE MatchCount(Tail(text), token)

\* the sum of the values of a function with a finite domain
RECURSIVE SumOf(_)
SumOf(f) ==
    IF DOMAIN f = {} THEN 0
    ELSE LET x == CHOOSE y \in DOMAIN f : TRUE
         IN  f[x] + SumOf([y \in DOMAIN f \ {x} |-> f[y]])

\* cleaned.split(/\s+/).filter(w => w.length > 0): the maximal runs without a space
Words(cleaned) ==
    {SubSeq(cleaned, p[1], p[2]) :
        p \in {q \in (DOMAIN cleaned) \X (DOMAIN cleaned) :
                  /\ q[1] <= q[2]
                  /\ \A k \in q[1]..q[2] : cleaned[k] # " "
                  /\ (q[1] = 1 \/ cleaned[q[1] - 1] = " ")
                  /\ (q[2] = Len(cleaned) \/ cleaned[q[2] + 1] = " ")}}

\* the segments of 2, 3 and 4 characters of a word
Segments(word) ==
    {SubSeq(word, p[1], p[1] + p[2] - 1) :
        p \in {q \in (DOMAIN word) \X (2..4) : q[1] + q[2] - 1 <= Len(word)}}

\* /[\u4e00-\u9fa5]/.test(word)
HasChinese(word) == \E k \in DOMAIN word : word[k] \in ChineseChars

\* text.toLowerCase().replace(/[<punctuation>]/g, ' ')
Clean(text) ==
    LET lower == ToLowerCase(text)
    IN  [i \in DOMAIN lower |-> IF lower[i] \in Punctuation THEN " " ELSE lower[i]]

\* the tokens of a cleaned text: its words and the segments of its Chinese
\* words, without the stop words
TokensOf(cleaned) ==
    {w \in Words(cleaned) : w \notin STOP_WORDS}
    \cup UNION {Segments(w) \ STOP_WORDS : w \in {v \in Words(cleaned) : HasChinese(v)}}

\* tokenize: the set of tokens of a text
Tokenize(text) == TokensOf(Clean(text))

\* a token shorter than this is skipped by the scorer
MinTokenLength == 2
\* weight of a token found in the question of an entry
QuestionWeight == 4
\* weight of a token found among the keywords of an entry
KeywordWeight == 3
\* the occurrences of a token in the answer count up to this number
MaxOccurrences == 5

\* the entry with a given id as calculateMatchScore receives it
EntryOf(id) ==
    [question |-> KnowledgeQuestion(id), answer |-> KnowledgeAnswer(id),
     keywords |-> KnowledgeKeywords(id)]

\* the tokens calculateMatchScore does not skip
Scored(queryTokens) == {t \in queryTokens : Len(t) >= MinTokenLength}

\* what one token adds to questionScore, keywordScore and answerScore
QuestionPart(t, entry) ==
    IF Includes(ToLowerCase(entry.question), t) THEN Len(t) * QuestionWeight ELSE 0

KeywordPart(t, entry) ==
    IF \E k \in entry.keywords : Includes(ToLowerCase(k), t) \/ Includes(t, ToLowerCase(k))
    THEN Len(t) * KeywordWeight ELSE 0

AnswerPart(t, entry) ==
    Len(t) * Min(MatchCount(ToLowerCase(entry.answer), t), MaxOccurrences)

\* calculateMatchScore: the score and the match type of an entry for the tokens
CalculateMatchScore(queryTokens, entry) ==
    LET questionScore == SumOf([t \in Scored(queryTokens) |-> QuestionPart(t, entry)])
        keywordScore == SumOf([t \in Scored(queryTokens) |-> KeywordPart(t, entry)])
        answerScore == SumOf([t \in Scored(queryTokens) |-> AnswerPart(t, entry)])
        maxScore == Max(questionScore, Max(keywordScore, answerScore))
    IN  IF maxScore = 0
        THEN [score |-> 0, matchType |-> "none"]
        ELSE [score |-> questionScore + keywordScore + answerScore,
              matchType |-> IF questionScore = maxScore THEN "question"
                            ELSE IF keywordScore = maxScore THEN "keyword"
                            ELSE "answer"]

ScoreOf(query, id) == CalculateMatchScore(Tokenize(query), EntryOf(id)).score

\* Array.prototype.slice(0, n)
Take(s, n) == SubSeq(s, 1, Min(n, Len(s)))

\* Array.prototype.sort((a, b) => b.score - a.score): descending and stable
RECURSIVE SortByScore(_, _)
SortByScore(query, ids) ==
    IF ids = <<>> THEN <<>>
    ELSE LET rest == SortByScore(query, Tail(ids))
             ahead == Cardinality({k \in DOMAIN rest :
                                      ScoreOf(query, rest[k]) > ScoreOf(query, Head(ids))})
         IN  SubSeq(rest, 1, ahead) \o <<Head(ids)>> \o SubSeq(rest, ahead + 1, Len(rest))

\* the filter of findRelevantEntries
IsRelevant(query, id) == ScoreOf(query, id) > 0

\* default of the parameter maxResults of findRelevantEntries
MaxResults == 10

\* findRelevantEntries without its filter on the score
FindRelevantEntries_NoFilter(query, entries) ==
    Take(SortByScore(query, entries), MaxResults)

\* findRelevantEntries: the entries that score, best first, ten at most
FindRelevantEntries(query, entries) ==
    LET Relevant(id) == IsRelevant(query, id)
    IN  Take(SortByScore(query, SelectSeq(entries, Relevant)), MaxResults)

-----------------------------------------------------------------------------
(* Knowledge service: the calls of answerQuestion, step by step *)

\* number of answerQuestion calls in progress at the same time
MaxCalls == 2

\* number of (de)activations of knowledge entries during the calls
MaxEdits == 1

CallIds == 1..MaxCalls

\* searchByVector({ limit: 5 })
VectorLimit == 5

\* the number of candidates answerQuestion hands on: slice(0, 5)
MaxCandidates == 5

\* the number of entries a provider puts in its prompt: slice(0, 5)
MaxPromptEntries == 5

\* the ids of a set of rows as a list, in the order of the ids
RECURSIVE IdsInOrder(_)
IdsInOrder(ids) ==
    IF ids = {} THEN <<>>
    ELSE LET least == CHOOSE i \in ids : \A j \in ids : i <= j
         IN  <<least>> \o IdsInOrder(ids \ {least})

\* the answers the model may write: a plain one, one with three question marks,
\* one with five bullet markers, one with two question marks and four bullet
\* markers, and none
PlainAnswer == <<"o", "k">>
ThreeQuestionsAnswer == <<"?w", "a", "?", "a", "?w">>
FiveBulletsAnswer == <<"*b", "a", "*m", "*b", "*m", "*b">>
TwoQuestionsFourBulletsAnswer == <<"?", "*b", "*b", "?w", "*m", "*b">>
ParsedAnswers ==
    {EmptyText, PlainAnswer, ThreeQuestionsAnswer, FiveBulletsAnswer,
     TwoQuestionsFourBulletsAnswer}

\* the usedKnowledge lists the model may write: numbers of prompt entries
UsedKnowledgeLists == {<<>>, <<1>>, <<1, 1>>, <<2, 1>>}

\* the JSON objects a provider may parse out of the model's reply ('canAnswer',
\* 'answer' and 'confidence' left out read as false, '' and 0): every answer with
\* every verdict and confidence, and every usedKnowledge list
ParsedOutputs ==
    [canAnswer : BOOLEAN, answer : ParsedAnswers, confidence : {0, 80},
     usedKnowledge : {<<1>>}]
    \cup
    [canAnswer : {TRUE}, answer : {PlainAnswer}, confidence : {80},
     usedKnowledge : UsedKnowledgeLists]

\* the reply of a model that answers from the first prompt entry
CitingOutputs ==
    [canAnswer : {TRUE}, answer : {PlainAnswer}, confidence : {80},
     usedKnowledge : {<<1>>, <<2, 1>>}]

\* generateAnswer of a provider, after the model's reply was parsed
GenerateAnswer(parsed, knowledgeEntries) ==
    IF knowledgeEntries = <<>>
    THEN CannotAnswer
    ELSE LET limitedEntries == Take(knowledgeEntries, MaxPromptEntries)
             Defined(idx) == idx \in DOMAIN limitedEntries
             used == SelectSeq(parsed.usedKnowledge, Defined)
         IN  [answer |-> parsed.answer,
              confidence |-> parsed.confidence,
              sources |-> [k \in DOMAIN used |-> limitedEntries[used[k]]],
              canAnswer |-> parsed.canAnswer]

\* findMany without where: { isActive: true }
ActiveIds_All == KnowledgeIds

\* the rows findMany({ where: { isActive: true } }) returns
ActiveIds == {id \in KnowledgeIds : knowledgeEntry[id].isActive}

\* getEmbeddingStats().embedded
EmbeddedCount == Cardinality({id \in KnowledgeIds : knowledgeEntry[id].embedded})

\* what searchByVector may return: up to five active entries of the index
SearchByVector ==
    {IdsInOrder(found) :
        found \in {s \in SUBSET {id \in ActiveIds : knowledgeEntry[id].embedded} :
                      Cardinality(s) <= VectorLimit}}

\* useVectorSearch is never set
UseVectorSearch_Never(vectorResults) == FALSE

\* useVectorSearch = vectorResults.length > 0
UseVectorSearch(vectorResults) == Len(vectorResults) > 0

\* the candidates of the lexical path for the rows findMany returned
LexicalCandidates(query, entries) ==
    LET relevantEntries == FindRelevantEntries(query, entries)
    IN  IF Len(relevantEntries) > 0
        THEN Take(relevantEntries, MaxCandidates)
        ELSE Take(entries, MaxCandidates)

\* a call that was not made
UnusedCall ==
    [pc |-> "unused", query |-> EmptyText,
     parsed |-> [canAnswer |-> FALSE, answer |-> EmptyText, confidence |-> 0,
                 usedKnowledge |-> <<>>],
     vectorResults |-> <<>>, useVectorSearch |-> FALSE, lexicalRan |-> FALSE,
     entries |-> <<>>, entriesToUse |-> <<>>, generated |-> CannotAnswer, result |-> CannotAnswer,
     next |-> 1, updated |-> <<>>, failures |-> {}]

\* a call of answerQuestion(query, groupId) at its first statement
NewCall(query, parsed) ==
    [UnusedCall EXCEPT !.pc = "group", !.query = query, !.parsed = parsed]

\* the state of a decision run
runVars == <<pc, settings, group, knowledge, event, analysis, isQuestion, questionConfidence,
             unansweredQuestions, searchResults, didReply, replyAnswer, replies,
             logs, issues, failed>>

\* the run variables while no decision run is modelled
RunIdle ==
    /\ pc = "done"
    /\ settings \in [autoReply : BOOLEAN, confidenceThreshold : {50},
                     notFoundReply : {EmptyText}]
    /\ event = [botNameMentioned |-> FALSE, isPrivateChat |-> FALSE, replyToken |-> TRUE]
    /\ analysis = ForcedAnalysis
    /\ isQuestion = FALSE
    /\ questionConfidence = 0
    /\ unansweredQuestions = <<>>
    /\ searchResults = <<>>
    /\ didReply = FALSE
    /\ replyAnswer = NullText
    /\ replies = <<>>
    /\ logs = <<>>
    /\ issues = <<>>
    /\ failed = "none"

\* the answerQuestion variables while no call is modelled
AnswerIdle ==
    /\ knowledgeEntry = <<>>
    /\ call = <<>>
    /\ edits = 0

\* the webhook variables while no request is modelled
HookIdle ==
    /\ delivery = <<>>
    /\ message = {}
    /\ running = 0
    /\ runs = <<>>

\* the tables the calls start from: the first n entries active, the first three
\* entries in the embedding index or no index at all
KnowledgeTables ==
    {[id \in KnowledgeIds |->
        [isActive |-> id <= n, embedded |-> indexed /\ id <= 3, usageCount |-> 0]] :
        n \in {0, 3, MaxEntries}, indexed \in BOOLEAN}

\* one call with any query and any reply of the model while an operator edits
\* the table, or MaxCalls calls at the same time whose model replies cite prompt
\* entries of a table nobody edits
AnswerInit ==
    /\ RunIdle
    /\ LaterIdle
    /\ settings.autoReply
    /\ knowledge = [e \in EntryIds |-> "absent"]
    /\ HookIdle
    /\ group \in [autoReplyEnabled : BOOLEAN]
    /\ knowledgeEntry \in KnowledgeTables
    /\ \/ /\ edits = 0
          /\ \E q \in Queries, parsed \in ParsedOutputs :
                call = [c \in CallIds |-> IF c = 1 THEN NewCall(q, parsed) ELSE UnusedCall]
       \/ /\ edits = MaxEdits
          /\ group.autoReplyEnabled
          /\ \A id \in KnowledgeIds : knowledgeEntry[id].isActive
          /\ EmbeddedCount = 0
          /\ call \in [CallIds -> {NewCall(CourseQuery, parsed) : parsed \in CitingOutputs}]

\* an error that leaves answerQuestion: the call ends by throwing
CatchError_Rethrow(c, step) ==
    [call[c] EXCEPT !.pc = "thrown", !.failures = @ \cup {step}]

\* the catch block of answerQuestion: the error of a step is logged and the call
\* returns that it cannot answer
CatchError(c, step) ==
    [call[c] EXCEPT !.result = CannotAnswer, !.pc = "returned",
                    !.failures = @ \cup {step}]

\* prisma.lineGroup.findUnique and the per-group switch, before the try block
LookupGroup(c) ==
    /\ call[c].pc = "group"
    /\ \/ call' = [call EXCEPT ![c].pc = "thrown", ![c].failures = @ \cup {"group"}]
       \/ /\ ~group.autoReplyEnabled
          /\ call' = [call EXCEPT ![c].result = CannotAnswer, ![c].pc = "returned"]
       \/ /\ group.autoReplyEnabled
          /\ call' = [call EXCEPT ![c].pc = "vector"]
    /\ UNCHANGED <<knowledgeEntry, edits, runVars, hookVars, laterVars>>

\* the call after the vector search returned these results (none after an error)
AfterVectorSearch(c, vectorResults, failure) ==
    call' = [call EXCEPT
                ![c].vectorResults = vectorResults,
                ![c].useVectorSearch = UseVectorSearch(vectorResults),
                ![c].entriesToUse =
                    IF UseVectorSearch(vectorResults) /\ Len(vectorResults) > 0
                    THEN vectorResults ELSE @,
                ![c].pc =
                    IF UseVectorSearch(vectorResults) /\ Len(vectorResults) > 0
                    THEN "generate" ELSE "lexical",
                ![c].failures = @ \cup failure]

\* step 1: getEmbeddingStats and searchByVector inside their own try block
VectorSearch(c) ==
    /\ call[c].pc = "vector"
    /\ \/ AfterVectorSearch(c, <<>>, {"vector"})
       \/ /\ EmbeddedCount = 0
          /\ AfterVectorSearch(c, <<>>, {})
       \/ /\ EmbeddedCount > 0
          /\ \E vectorResults \in SearchByVector : AfterVectorSearch(c, vectorResults, {})
    /\ UNCHANGED <<knowledgeEntry, edits, runVars, hookVars, laterVars>>

\* step 2: findMany of the active entries and findRelevantEntries
LexicalSearch(c) ==
    /\ call[c].pc = "lexical"
    /\ LET entries == IdsInOrder(ActiveIds)
       IN  \/ call' = [call EXCEPT ![c] = [CatchError(c, "lexical") EXCEPT
                                              !.lexicalRan = TRUE]]
           \/ /\ Len(entries) = 0
              /\ call' = [call EXCEPT ![c].result = CannotAnswer,
                                      ![c].pc = "returned",
                                      ![c].lexicalRan = TRUE]
           \/ /\ Len(entries) > 0
              /\ call' = [call EXCEPT
                              ![c].entries = entries,
                              ![c].entriesToUse = LexicalCandidates(call[c].query, entries),
                              ![c].lexicalRan = TRUE,
                              ![c].pc = "generate"]
    /\ UNCHANGED <<knowledgeEntry, edits, runVars, hookVars, laterVars>>

\* generateAnswerWithFallback: the result of a provider's generateAnswer, or the
\* error of the providers (timeout, malformed JSON, network error) thrown on
GenerateAnswerWithFallback(parsed, entriesToUse) ==
    {[threw |-> FALSE, value |-> GenerateAnswer(parsed, entriesToUse)],
     [threw |-> TRUE, value |-> CannotAnswer]}

\* step 3: generateAnswerWithFallback and the safety check on its result
Generate(c) ==
    /\ call[c].pc = "generate"
    /\ \E outcome \in GenerateAnswerWithFallback(call[c].parsed, call[c].entriesToUse) :
          IF outcome.threw
          THEN call' = [call EXCEPT ![c] = CatchError(c, "generator")]
          ELSE LET result == SafetyFilter(outcome.value)
               IN  call' = [call EXCEPT
                               ![c].generated = outcome.value,
                               ![c].result = result,
                               ![c].next = 1,
                               ![c].pc = IF result.canAnswer /\ Len(result.sources) > 0
                                         THEN "update" ELSE "returned"]
    /\ UNCHANGED <<knowledgeEntry, edits, runVars, hookVars, laterVars>>

\* usageCount: 1 instead of the increment
IncrementUsage_SetToOne(row) == [row EXCEPT !.usageCount = 1]

\* data: { usageCount: { increment: 1 } }: one atomic update of the row
IncrementUsage(row) == [row EXCEPT !.usageCount = @ + 1]

\* the call goes on to the next cited entry, or returns after the last
NextSource(c) ==
    [call[c] EXCEPT !.next = @ + 1,
                    !.pc = IF call[c].next = Len(call[c].result.sources)
                           THEN "returned" ELSE "update"]

\* a rejected update that reaches the catch block of answerQuestion
AfterUpdateError_Propagates(c) == CatchError(c, "update")

\* .catch(() => {}): a rejected update is ignored
AfterUpdateError(c) ==
    [NextSource(c) EXCEPT !.failures = @ \cup {"update"}]

\* the usage statistics of one cited entry: prisma.knowledgeEntry.update
UpdateUsage(c) ==
    /\ call[c].pc = "update"
    /\ LET entryId == call[c].result.sources[call[c].next]
       IN  \/ /\ knowledgeEntry' =
                    [knowledgeEntry EXCEPT ![entryId] = IncrementUsage(@)]
              /\ call' = [call EXCEPT ![c] = [NextSource(c) EXCEPT
                                                !.updated = Append(@, entryId)]]
           \/ /\ call' = [call EXCEPT ![c] = AfterUpdateError(c)]
              /\ UNCHANGED knowledgeEntry
    /\ UNCHANGED <<edits, runVars, hookVars, laterVars>>

\* an operator switches a knowledge entry on or off (PUT /knowledge/:id)
SetActive(id) ==
    /\ edits < MaxEdits
    /\ knowledgeEntry' = [knowledgeEntry EXCEPT ![id].isActive = ~@]
    /\ edits' = edits + 1
    /\ UNCHANGED <<call, runVars, hookVars, laterVars>>

AnswerNext ==
    \/ \E c \in CallIds : LookupGroup(c)
    \/ \E c \in CallIds : VectorSearch(c)
    \/ \E c \in CallIds : LexicalSearch(c)
    \/ \E c \in CallIds : Generate(c)
    \/ \E c \in CallIds : UpdateUsage(c)
    \/ \E id \in KnowledgeIds : SetActive(id)

AnswerSpec == AnswerInit /\ [][AnswerNext]_vars

-----------------------------------------------------------------------------
(* The webhook: POST /line, handleEvent and handleMessageEvent *)

\* number of webhook requests in progress at the same time
MaxDeliveries == 2

\* number of events in the batch of one request
MaxBatch == 2

\* number of different text messages (lineMessageId) LINE delivers
MaxMessages == 2

DeliveryIds == 1..MaxDeliveries

\* the message events considered: the text messages, and one sticker message
\* (lineMessageId 0)
MessageEvents ==
    {[id |-> m, isText |-> TRUE] : m \in 1..MaxMessages} \cup {[id |-> 0, isText |-> FALSE]}

\* the batches of one request: LINE may send a message again, in the same batch
\* or by delivering the whole request again (every request of HookInit carries
\* the same batch)
Batches == UNION {[1..n -> MessageEvents] : n \in 1..MaxBatch}

\* the events and analyses handleAutoReply meets when called from the webhook;
\* the knowledge base of HookInit is empty (what a search of a filled one returns
\* is the matter of Spec and AnswerSpec), so that a reply is the fallback of a
\* private chat
HookEvents ==
    [botNameMentioned : {FALSE}, isPrivateChat : BOOLEAN, replyToken : BOOLEAN]

HookAnalyses ==
    {[hasUnansweredQuestion |-> TRUE, unansweredQuestions |-> <<QuestionText(1)>>,
      confidence |-> 80],
     [hasUnansweredQuestion |-> FALSE, unansweredQuestions |-> <<>>, confidence |-> 0]}

\* a request as it arrives
NewDelivery(events) ==
    [events |-> events, at |-> 1, pc |-> "verify", response |-> "none"]

\* the event the request is handling
CurrentEvent(d) == delivery[d].events[delivery[d].at]

HookInit ==
    /\ RunIdle
    /\ LaterIdle
    /\ AnswerIdle
    /\ group = [autoReplyEnabled |-> TRUE]
    /\ knowledge = [e \in EntryIds |-> "absent"]
    /\ \E b \in Batches : delivery = [d \in DeliveryIds |-> NewDelivery(b)]
    /\ message = {}
    /\ running = 0
    /\ runs = <<>>

\* the signature check of the request: a missing signature is answered 400, an
\* invalid one 403; a valid one, or a check that throws, lets the events through
VerifySignature(d) ==
    /\ delivery[d].pc = "verify"
    /\ \/ delivery' = [delivery EXCEPT ![d].pc = "responded", ![d].response = "400"]
       \/ delivery' = [delivery EXCEPT ![d].pc = "responded", ![d].response = "403"]
       \/ delivery' = [delivery EXCEPT ![d].pc = "event"]
    /\ UNCHANGED <<message, running, runs, runVars, answerVars, laterVars>>

\* the request moves to its next event after the handler of this one returned
Returned(d) ==
    [delivery[d] EXCEPT !.at = @ + 1, !.pc = "event"]

\* an error escapes the loop over the events: the request fails
Thrown_Escapes(d) ==
    [delivery[d] EXCEPT !.pc = "responded", !.response = "500"]

\* the catch block around handleEvent: the error is logged and the loop goes on
Thrown(d) ==
    [delivery[d] EXCEPT !.at = @ + 1, !.pc = "event"]

\* for (const event of events): the next event, or { success: true } after the last
NextEvent(d) ==
    /\ delivery[d].pc = "event"
    /\ delivery' = [delivery EXCEPT
                       ![d].pc = IF delivery[d].at > Len(delivery[d].events)
                                 THEN "responded" ELSE "dedup",
                       ![d].response = IF delivery[d].at > Len(delivery[d].events)
                                       THEN "success" ELSE @]
    /\ UNCHANGED <<message, running, runs, runVars, answerVars, laterVars>>

\* handleMessageEvent: the group, the member and their relation are looked up or
\* created (rows this model does not hold), then a message already stored is
\* skipped; any of the lookups may throw
FindExisting(d) ==
    /\ delivery[d].pc = "dedup"
    /\ \/ /\ CurrentEvent(d).id \in message
          /\ delivery' = [delivery EXCEPT ![d] = Returned(d)]
       \/ /\ CurrentEvent(d).id \notin message
          /\ delivery' = [delivery EXCEPT ![d].pc = "create"]
       \/ delivery' = [delivery EXCEPT ![d] = Thrown(d)]
    /\ UNCHANGED <<message, running, runs, runVars, answerVars, laterVars>>

\* prisma.message.create accepts a second row with the same lineMessageId
CreateRejected_NotUnique(lineMessageId) == FALSE

\* lineMessageId is a unique key of the message table (findUnique looks rows up
\* by it): the create of a second row with the same key is rejected
CreateRejected(lineMessageId) == lineMessageId \in message

\* handleMessageEvent: the message is stored; a text message goes on to the
\* auto-reply, any other message is done
CreateMessage(d) ==
    /\ delivery[d].pc = "create"
    /\ \/ /\ ~CreateRejected(CurrentEvent(d).id)
          /\ message' = message \cup {CurrentEvent(d).id}
          /\ delivery' = [delivery EXCEPT
                             ![d] = IF CurrentEvent(d).isText
                                    THEN [@ EXCEPT !.pc = "autoreply"]
                                    ELSE Returned(d)]
       \/ /\ delivery' = [delivery EXCEPT ![d] = Thrown(d)]
          /\ UNCHANGED message
    /\ UNCHANGED <<running, runs, runVars, answerVars, laterVars>>

\* handleMessageEvent: a text message is handed to handleAutoReply (the update
\* of the member's name before the call may throw); the runs of handleAutoReply
\* share no local and write rows only by appending, they are taken one at a time
CallAutoReply(d) ==
    /\ delivery[d].pc = "autoreply"
    /\ \/ /\ running = 0
          /\ pc = "done"
          /\ delivery' = [delivery EXCEPT ![d].pc = "running"]
          /\ running' = d
          /\ runs' = Append(runs, CurrentEvent(d).id)
          /\ pc' = "start"
          /\ \E e \in HookEvents :
                /\ event' = e
                /\ analysis' \in IF e.botNameMentioned \/ e.isPrivateChat
                                 THEN {ForcedAnalysis} ELSE HookAnalyses
          /\ isQuestion' = FALSE
          /\ questionConfidence' = 0
          /\ unansweredQuestions' = <<>>
          /\ searchResults' = <<>>
          /\ didReply' = FALSE
          /\ replyAnswer' = NullText
          /\ failed' = "none"
          /\ UNCHANGED <<settings, group, knowledge, replies, logs, issues>>
       \/ /\ delivery' = [delivery EXCEPT ![d] = Thrown(d)]
          /\ UNCHANGED <<running, runs, runVars>>
    /\ UNCHANGED <<message, answerVars, laterVars>>

\* handleAutoReply returned (it has no throw of its own: its body is one try
\* block whose catch only logs) and its locals are gone; handleMessageEvent
\* returns
AutoReplyReturns(d) ==
    /\ delivery[d].pc = "running"
    /\ running = d
    /\ pc = "done"
    /\ delivery' = [delivery EXCEPT ![d] = Returned(d)]
    /\ running' = 0
    /\ event' = [botNameMentioned |-> FALSE, isPrivateChat |-> FALSE, replyToken |-> TRUE]
    /\ analysis' = ForcedAnalysis
    /\ isQuestion' = FALSE
    /\ questionConfidence' = 0
    /\ unansweredQuestions' = <<>>
    /\ searchResults' = <<>>
    /\ didReply' = FALSE
    /\ replyAnswer' = NullText
    /\ failed' = "none"
    /\ UNCHANGED <<pc, settings, group, knowledge, replies, logs, issues>>
    /\ UNCHANGED <<message, runs, answerVars, laterVars>>

HookNext ==
    \/ \E d \in DeliveryIds : VerifySignature(d)
    \/ \E d \in DeliveryIds : NextEvent(d)
    \/ \E d \in DeliveryIds : FindExisting(d)
    \/ \E d \in DeliveryIds : CreateMessage(d)
    \/ \E d \in DeliveryIds : CallAutoReply(d)
    \/ \E d \in DeliveryIds : AutoReplyReturns(d)
    \/ LoadSettings
    \/ Analyze
    \/ TrackOnly
    \/ Search
    \/ SendReply
    \/ SkipReply
    \/ NoReply
    \/ WriteLog
    \/ CreateIssue

HookSpec == HookInit /\ [][HookNext]_vars

-----------------------------------------------------------------------------
(* The bot-name check and the conversation analyzer in front of the run *)

\* String.prototype.trim
RECURSIVE TrimStart(_)
TrimStart(text) ==
    IF text # <<>> /\ text[1] = " " THEN TrimStart(Tail(text)) ELSE text

RECURSIVE TrimEnd(_)
TrimEnd(text) ==
    IF text # <<>> /\ text[Len(text)] = " "
    THEN TrimEnd(SubSeq(text, 1, Len(text) - 1)) ELSE text

Trim(text) == TrimEnd(TrimStart(text))

\* String.prototype.split(','): the pieces between the commas, '' gives ['']
RECURSIVE Split(_)
Split(text) ==
    IF \E i \in DOMAIN text : text[i] = ","
    THEN LET i == CHOOSE k \in DOMAIN text :
                      text[k] = "," /\ \A j \in 1..(k - 1) : text[j] # ","
         IN <<SubSeq(text, 1, i - 1)>> \o Split(SubSeq(text, i + 1, Len(text)))
    ELSE <<text>>

\* botName.split(',').map(n => n.trim()).filter(n => n.length > 0)
BotNames(name) ==
    LET pieces == Split(name)
        trimmed == [i \in DOMAIN pieces |-> Trim(pieces[i])]
    IN SelectSeq(trimmed, LAMBDA n : Len(n) > 0)

\* the check without lower-casing: content.includes(name)
CheckBotNameMentioned_CaseSensitive(text, name) ==
    IF name = NullText \/ name = EmptyText \/ Trim(name) = EmptyText
    THEN FALSE
    ELSE \E i \in DOMAIN BotNames(name) : Includes(text, BotNames(name)[i])

\* checkBotNameMentioned(content, settings['bot.name'] || null)
CheckBotNameMentioned(text, name) ==
    IF name = NullText \/ name = EmptyText \/ Trim(name) = EmptyText
    THEN FALSE
    ELSE \E i \in DOMAIN BotNames(name) :
            Includes(ToLowerCase(text), ToLowerCase(BotNames(name)[i]))

\* the settings of bot.name considered: unset, empty, blank, blank names only,
\* one name, two names with spaces around them
NoNames == {NullText, EmptyText, <<" ">>, <<" ", ",", " ">>}
BotNameSettings == NoNames \cup {<<"A", "a">>, <<"x", "x", ",", " ", "A", "a", " ">>}

\* the message texts considered: no name, a name in another case, the letters
\* of a name apart, the blanks and comma of a blank name list
Contents ==
    {<<"h", "i">>, <<"h", "i", " ", "a", "A", "!">>, <<"a", " ", "a">>, <<" ", ",", " ">>}

\* a confidence the model reports is written in thousandths: 800 is 0.8 and
\* 80000 is 80
Thousandth == 1000

\* Math.round(confidence * 100) of a confidence given in thousandths
RoundPercent(thousandths) == (thousandths + 5) \div 10

\* the confidences the provider reports: none, 0, 0.006, 0.494, 0.5, 0.8, 1.0,
\* and the whole numbers 50, 80 and -1
ReportedConfidences ==
    {0, 6, 494, 500, 800, 1000, 50000, 80000, -1000}

\* the confidence is not rescaled
NormalizeConfidence_AsReported(r) ==
    IF ~r.hasConfidence \/ r.confidence = 0 THEN 0 ELSE r.confidence \div Thousandth

\* let confidence = analysis.confidence || 0; a value in (0, 1] is taken as a
\* fraction and becomes a percentage (the other values considered are whole)
NormalizeConfidence(r) ==
    IF ~r.hasConfidence \/ r.confidence = 0 THEN 0
    ELSE IF r.confidence > 0 /\ r.confidence <= Thousandth
         THEN RoundPercent(r.confidence)
         ELSE r.confidence \div Thousandth

\* (analysis.allQuestions || []).filter(q => q.status === 'unanswered').map(q => q.question)
ListedUnanswered(r) ==
    LET open == SelectSeq(r.allQuestions, LAMBDA q : q.status = "unanswered")
    IN [i \in DOMAIN open |-> open[i].question]

\* every listed question is taken, whatever its status
ExtractUnanswered_AnyStatus(r) ==
    [i \in DOMAIN r.allQuestions |-> r.allQuestions[i].question]

\* the unanswered list of the analyzer, with the fallback to the question field
ExtractUnanswered(r) ==
    IF r.hasUnansweredQuestion /\ ListedUnanswered(r) = <<>>
          /\ r.question \notin {NullText, EmptyText}
    THEN <<r.question>>
    ELSE ListedUnanswered(r)

\* confidence of the assumption made when the analysis failed
FailSafeConfidence == 50

\* the catch block of analyzeConversationWithAI
AnalysisFailed ==
    [hasUnansweredQuestion |-> TRUE, unansweredQuestions |-> <<>>,
     confidence |-> FailSafeConfidence]

\* analyzeConversationWithAI for a conversation that holds the inbound message
AnalyzeConversationWithAI(r) ==
    IF r.threw THEN AnalysisFailed
    ELSE [hasUnansweredQuestion |-> r.hasUnansweredQuestion,
          unansweredQuestions |-> ExtractUnanswered(r),
          confidence |-> NormalizeConfidence(r)]

\* the question lists the provider reports: none; one resolved and one open
\* question; open, abandoned, open; one resolved question
Listed(i, status) == [question |-> QuestionText(i), status |-> status]

QuestionLists ==
    {<<>>,
     <<Listed(1, "answered"), Listed(2, "unanswered")>>,
     <<Listed(1, "unanswered"), Listed(2, "abandoned"), Listed(3, "unanswered")>>,
     <<Listed(1, "answered")>>}

\* the provider threw (or the messages could not be read)
Threw ==
    [threw |-> TRUE, hasUnansweredQuestion |-> FALSE, allQuestions |-> <<>>,
     question |-> NullText, hasConfidence |-> FALSE, confidence |-> 0]

\* what the provider's analyzeConversation returns
Reports ==
    [threw : {FALSE}, hasUnansweredQuestion : BOOLEAN, allQuestions : QuestionLists,
     question : {NullText, QuestionText(4)}, hasConfidence : {TRUE},
     confidence : ReportedConfidences]
    \cup
    [threw : {FALSE}, hasUnansweredQuestion : {TRUE}, allQuestions : {<<>>},
     question : {NullText, EmptyText, QuestionText(4)}, hasConfidence : {FALSE},
     confidence : {0}]
    \cup {Threw}

\* a report that finds no question at all
NothingReported ==
    [threw |-> FALSE, hasUnansweredQuestion |-> FALSE, allQuestions |-> <<>>,
     question |-> NullText, hasConfidence |-> TRUE, confidence |-> 0]

\* a run behind the bot-name check and the analyzer: either any message text and
\* name setting with a report of no question or a failed analysis, or any
\* report for a message of a group chat that names nobody
AnalyzerInit ==
    /\ pc = "start"
    /\ settings \in [autoReply : BOOLEAN, confidenceThreshold : Thresholds,
                     notFoundReply : {EmptyText}]
    /\ group \in [autoReplyEnabled : BOOLEAN]
    /\ knowledge \in [EntryIds -> {"absent", "active"}]
    /\ \/ /\ content \in Contents
          /\ botName \in BotNameSettings
          /\ reported \in {NothingReported, Threw}
          /\ event \in [botNameMentioned : {CheckBotNameMentioned(content, botName)},
                        isPrivateChat : BOOLEAN, replyToken : BOOLEAN]
       \/ /\ content = <<"h", "i">>
          /\ botName = <<"A", "a">>
          /\ reported \in Reports
          /\ event = [botNameMentioned |-> CheckBotNameMentioned(content, botName),
                      isPrivateChat |-> FALSE, replyToken |-> TRUE]
    /\ analysis = AnalyzeConversationWithAI(reported)
    /\ isQuestion = FALSE
    /\ questionConfidence = 0
    /\ unansweredQuestions = <<>>
    /\ searchResults = <<>>
    /\ didReply = FALSE
    /\ replyAnswer = NullText
    /\ replies = <<>>
    /\ logs = <<>>
    /\ issues = <<>>
    /\ failed = "none"
    /\ AnswerIdle
    /\ HookIdle
    /\ ScorerIdle
    /\ TunnelIdle
    /\ ClientIdle

\* the steps are those of the run
AnalyzerSpec == AnalyzerInit /\ [][Next]_vars

-----------------------------------------------------------------------------
(* The tokenizer and the lexical scorer taken alone: tokenize builds its array *)
(* token by token, calculateMatchScore scores one entry, the filter of        *)
(* findRelevantEntries keeps it or not                                        *)

\* longest text of the texts tokenized exhaustively
MaxTextLen == 4

\* cleaned.split(/\s+/).filter(w => w.length > 0), in the order of the text
RECURSIVE WordList(_)
WordList(cleaned) ==
    IF cleaned = <<>> THEN <<>>
    ELSE IF cleaned[1] = " " THEN WordList(Tail(cleaned))
    ELSE LET stop == IF \E i \in DOMAIN cleaned : cleaned[i] = " "
                     THEN CHOOSE i \in DOMAIN cleaned :
                              cleaned[i] = " " /\ \A j \in 1..(i - 1) : cleaned[j] # " "
                     ELSE Len(cleaned) + 1
         IN  <<SubSeq(cleaned, 1, stop - 1)>> \o WordList(SubSeq(cleaned, stop, Len(cleaned)))

\* the tokens are collected in an array: tokens.push(token)
AddToken_Push(list, token) == Append(list, token)

\* tokens.add(token) of a Set, which keeps the order of the first insertion
AddToken(list, token) ==
    IF \E i \in DOMAIN list : list[i] = token THEN list ELSE Append(list, token)

\* if (!STOP_WORDS.has(x)) tokens.add(x), for every x of a list in turn
RECURSIVE AddAll(_, _)
AddAll(list, candidates) ==
    IF candidates = <<>> THEN list
    ELSE AddAll(IF Head(candidates) \in STOP_WORDS THEN list
                ELSE AddToken(list, Head(candidates)),
                Tail(candidates))

\* for (let i = 0; i < word.length - (n - 1); i++) word.slice(i, i + n)
SegmentList(word, n) ==
    [i \in 1..Max(Len(word) - n + 1, 0) |-> SubSeq(word, i, i + n - 1)]

\* the body of the loop over the words
AddWord(list, word) ==
    LET whole == AddAll(list, <<word>>)
    IN  IF HasChinese(word)
        THEN AddAll(AddAll(AddAll(whole, SegmentList(word, 2)), SegmentList(word, 3)),
                    SegmentList(word, 4))
        ELSE whole

RECURSIVE AddWords(_, _)
AddWords(list, words) ==
    IF words = <<>> THEN list ELSE AddWords(AddWord(list, Head(words)), Tail(words))

\* tokenize: Array.from(tokens)
TokenList(text) == AddWords(<<>>, WordList(Clean(text)))

\* the elements of an array
Elements(list) == {list[i] : i \in DOMAIN list}

\* the characters of the texts tokenized exhaustively: two characters that form
\* a stop word, another Chinese character, a capital letter, a space, a comma
TextChars == {"ru", "he", "jian", "A", " ", ","}

ShortTexts == UNION {[1..n -> TextChars] : n \in 0..MaxTextLen}

\* 'How do I set up a course', 'course creation, refund', and a text with a
\* Latin word and a Chinese word twice
SetUpCourseQuery == <<"zen", "me", "jian", "li", "ke", "cheng">>
TwoTopicsQuery == <<"jian", "ke", ",", "tui", "fei">>
RepeatingQuery == <<"A", "a", " ", "jian", "ke", " ", "jian", "ke">>

NamedQueries ==
    {SetUpCourseQuery, TwoTopicsQuery, RepeatingQuery, CourseQuery, <<"jian", "ke">>}

\* a text of n times 'course creation'
RECURSIVE Repeated(_)
Repeated(n) == IF n = 0 THEN <<>> ELSE <<"jian", "ke">> \o Repeated(n - 1)

\* the entry 'How to create a course' with the keyword 'course creation' and an
\* answer that shares no text with the queries
CourseEntry ==
    [question |-> <<"ru", "he", "jian", "ke">>, answer |-> <<"o", "k">>,
     keywords |-> {<<"jian", "ke">>}]

\* an entry about refunds whose answer names course creation n times
RefundEntry(n) ==
    [question |-> <<"tui", "fei">>, answer |-> Repeated(n), keywords |-> {}]

\* an entry whose question is 'course creation' and nothing else
TitleEntry ==
    [question |-> <<"jian", "ke">>, answer |-> <<"o", "k">>, keywords |-> {}]

ScorerEntries ==
    {CourseEntry, TitleEntry} \cup {RefundEntry(n) : n \in {1, 4, 5, 6}}

NotTokenized == <<"<pending>">>

NewScoring(query, entry) ==
    [pc |-> "tokenize", query |-> query, entry |-> entry, tokens |-> NotTokenized,
     result |-> [score |-> 0, matchType |-> "none"], kept |-> FALSE]

\* one scoring: a named query against any of the entries, or any short text
\* against the course entry
ScorerInit ==
    /\ RunIdle
    /\ settings.autoReply
    /\ group = [autoReplyEnabled |-> TRUE]
    /\ knowledge = [e \in EntryIds |-> "absent"]
    /\ AnswerIdle
    /\ HookIdle
    /\ AnalyzerIdle
    /\ TunnelIdle
    /\ ClientIdle
    /\ \/ \E q \in NamedQueries, e \in ScorerEntries : scoring = NewScoring(q, e)
       \/ \E q \in ShortTexts : scoring = NewScoring(q, CourseEntry)

\* const queryTokens = tokenize(query)
TokenizeQuery ==
    /\ scoring.pc = "tokenize"
    /\ scoring' = [scoring EXCEPT !.pc = "score", !.tokens = TokenList(scoring.query)]
    /\ UNCHANGED <<runVars, answerVars, hookVars, analyzerVars, tunnelVars, clientVars>>

\* calculateMatchScore(queryTokens, entry)
ScoreEntry ==
    /\ scoring.pc = "score"
    /\ scoring' = [scoring EXCEPT
                      !.pc = "filter",
                      !.result = CalculateMatchScore(Elements(scoring.tokens), scoring.entry)]
    /\ UNCHANGED <<runVars, answerVars, hookVars, analyzerVars, tunnelVars, clientVars>>

\* .filter(item => item.score > 0)
FilterEntry ==
    /\ scoring.pc = "filter"
    /\ scoring' = [scoring EXCEPT !.pc = "done", !.kept = scoring.result.score > 0]
    /\ UNCHANGED <<runVars, answerVars, hookVars, analyzerVars, tunnelVars, clientVars>>

ScorerNext ==
    \/ TokenizeQuery
    \/ ScoreEntry
    \/ FilterEntry

ScorerSpec == ScorerInit /\ [][ScorerNext]_vars

-----------------------------------------------------------------------------
(* The tunnel service (TunnelService in src/unnamed/part_002, lines 317-682):  *)
(* the calls of autoStart, startByMode and stop, the exit events of the        *)
(* cloudflared processes and the restart timers, interleaved at every await.   *)
(* The 'error' event of a spawn (no cloudflared binary) is left out; which     *)
(* mode the settings hold is free at every read.                               *)

\* cloudflared processes spawned during one life of the server
MaxProcesses == 3

\* calls of autoStart and startByMode during one life of the server
MaxStarts == 3

\* calls of stop() during one life of the server
MaxStops == 1

Pids == 1..MaxProcesses

StartIds == 1..MaxStarts

StopIds == 1..MaxStops

\* type TunnelMode = 'quick' | 'fixed'
TunnelModes == {"quick", "fixed"}

\* a process that was not spawned yet
Unborn == [state |-> "unborn", killed |-> FALSE, by |-> "none", mode |-> "none",
           printed |-> FALSE]

\* a start call that was not made yet
NoStart == [pc |-> "idle", origin |-> "none", mode |-> "none"]

\* a stop call that was not made yet
NoStop == [pc |-> "idle", waits |-> 0]

\* the first call that was not made yet (0 if all were made)
FirstIdle(calls) ==
    IF \E c \in DOMAIN calls : calls[c].pc = "idle"
    THEN CHOOSE c \in DOMAIN calls :
            /\ calls[c].pc = "idle"
            /\ \A d \in DOMAIN calls : calls[d].pc = "idle" => c <= d
    ELSE 0

\* the pid the next spawn gets (0 if no more processes are modelled)
NextPid ==
    IF \E p \in Pids : procs[p].state = "unborn"
    THEN CHOOSE p \in Pids :
            /\ procs[p].state = "unborn"
            /\ \A q \in Pids : procs[q].state = "unborn" => p <= q
    ELSE 0

\* pkill -f "cloudflared tunnel": every running cloudflared gets the signal,
\* the ChildProcess objects do not learn of it
KillAllTunnelProcesses(ps) ==
    [p \in Pids |-> IF ps[p].state = "alive" THEN [ps[p] EXCEPT !.state = "signalled"]
                    ELSE ps[p]]

\* process.kill(signal) of Node: the signal is sent and killed becomes true
Kill(ps, p) ==
    [ps EXCEPT ![p] = [@ EXCEPT !.killed = TRUE,
                                !.state = IF @ = "alive" THEN "signalled" ELSE @]]

\* the server has listened: the singleton is fresh and index.ts has called
\* autoStart, which awaits its settings
TunnelInit ==
    /\ RunIdle
    /\ settings.autoReply
    /\ group = [autoReplyEnabled |-> TRUE]
    /\ knowledge = [e \in EntryIds |-> "absent"]
    /\ AnswerIdle
    /\ HookIdle
    /\ AnalyzerIdle
    /\ ScorerIdle
    /\ ClientIdle
    /\ tunnel = [process |-> 0, url |-> 0, stopping |-> FALSE]
    /\ procs = [p \in Pids |-> Unborn]
    /\ starts = [s \in StartIds |->
                    IF s = 1 THEN [pc |-> "settings", origin |-> "auto", mode |-> "none"]
                    ELSE NoStart]
    /\ stops = [k \in StopIds |-> NoStop]
    /\ timers = 0
    /\ lastRequest = "none"

\* POST /start, and the second half of PUT /mode and of restart(): startByMode
\* enters startQuick or startFixed, which kills every cloudflared and waits 1 s
StartByMode(s) ==
    /\ s = FirstIdle(starts)
    /\ \E m \in TunnelModes :
          starts' = [starts EXCEPT ![s] = [pc |-> "wait", origin |-> "manual", mode |-> m]]
    /\ procs' = KillAllTunnelProcesses(procs)
    /\ lastRequest' = "start"
    /\ UNCHANGED <<tunnel, stops, timers>>
    /\ UNCHANGED <<runVars, answerVars, hookVars, analyzerVars, scorerVars, clientVars>>

\* autoStart after its two getSetting: fixed mode and no token, nothing starts
AutoStartSkipped(s) ==
    /\ starts[s].pc = "settings"
    /\ starts' = [starts EXCEPT ![s].pc = "done"]
    /\ UNCHANGED <<tunnel, procs, stops, timers, lastRequest>>
    /\ UNCHANGED <<runVars, answerVars, hookVars, analyzerVars, scorerVars, clientVars>>

\* autoStart after its two getSetting: startByMode(mode, port, token)
AutoStart(s) ==
    /\ starts[s].pc = "settings"
    /\ \E m \in TunnelModes : starts' = [starts EXCEPT ![s].pc = "wait", ![s].mode = m]
    /\ procs' = KillAllTunnelProcesses(procs)
    /\ UNCHANGED <<tunnel, stops, timers, lastRequest>>
    /\ UNCHANGED <<runVars, answerVars, hookVars, analyzerVars, scorerVars, clientVars>>

\* startQuick and startFixed after their wait: this.stopping = false and
\* this.process = spawn('cloudflared', ...)
Spawn(s, p) ==
    /\ tunnel' = [tunnel EXCEPT !.stopping = FALSE, !.process = p,
                                !.url = IF starts[s].mode = "fixed" THEN 0 ELSE @]
    /\ procs' = [procs EXCEPT ![p] = [state |-> "alive", killed |-> FALSE,
                                      by |-> starts[s].origin, mode |-> starts[s].mode,
                                      printed |-> FALSE]]

\* the 1 s timer of startQuick or startFixed has fired
StartResumes(s) ==
    /\ starts[s].pc = "wait"
    /\ NextPid # 0
    /\ Spawn(s, NextPid)
    /\ starts' = [starts EXCEPT ![s].pc = "done"]
    /\ UNCHANGED <<stops, timers, lastRequest>>
    /\ UNCHANGED <<runVars, answerVars, hookVars, analyzerVars, scorerVars, clientVars>>

\* handleOutput of startQuick: the process prints its trycloudflare URL
HandleOutput(p) ==
    /\ procs[p].state = "alive"
    /\ procs[p].mode = "quick"
    /\ ~procs[p].printed
    /\ procs' = [procs EXCEPT ![p].printed = TRUE]
    /\ tunnel' = [tunnel EXCEPT !.url = IF @ = 0 THEN p ELSE @]
    /\ UNCHANGED <<starts, stops, timers, lastRequest>>
    /\ UNCHANGED <<runVars, answerVars, hookVars, analyzerVars, scorerVars, clientVars>>

\* the 'exit' handler a start attached to the process it spawned
OnExit(p) ==
    /\ tunnel' = [tunnel EXCEPT !.process = 0,
                                !.url = IF procs[p].mode = "quick" THEN 0 ELSE @]
    /\ timers' = IF ~tunnel.stopping THEN timers + 1 ELSE timers

\* a cloudflared process ends, of itself or of a signal, and its exit event
\* is delivered
ProcessExits(p) ==
    /\ procs[p].state \in {"alive", "signalled"}
    /\ procs' = [procs EXCEPT ![p].state = "exited"]
    /\ OnExit(p)
    /\ UNCHANGED <<starts, stops, lastRequest>>
    /\ UNCHANGED <<runVars, answerVars, hookVars, analyzerVars, scorerVars, clientVars>>

\* if (!this.stopping && !this.process) of the restart timer
RestartWanted == ~tunnel.stopping /\ tunnel.process = 0

\* a restart timer fires (5 s after an exit) and calls autoStart
TimerRestarts(s) ==
    /\ timers > 0
    /\ RestartWanted
    /\ s = FirstIdle(starts)
    /\ timers' = timers - 1
    /\ starts' = [starts EXCEPT ![s] = [pc |-> "settings", origin |-> "auto", mode |-> "none"]]
    /\ UNCHANGED <<tunnel, procs, stops, lastRequest>>
    /\ UNCHANGED <<runVars, answerVars, hookVars, analyzerVars, scorerVars, clientVars>>

\* a restart timer fires and finds the service stopping or with a process
TimerPasses ==
    /\ timers > 0
    /\ ~RestartWanted
    /\ timers' = timers - 1
    /\ UNCHANGED <<tunnel, procs, starts, stops, lastRequest>>
    /\ UNCHANGED <<runVars, answerVars, hookVars, analyzerVars, scorerVars, clientVars>>

\* POST /stop, and the first half of PUT /mode and of restart(): stop() up to
\* its first await
Stop(k) ==
    /\ k = FirstIdle(stops)
    /\ lastRequest' = "stop"
    /\ tunnel' = [tunnel EXCEPT !.stopping = TRUE]
    /\ IF tunnel.process # 0 /\ ~procs[tunnel.process].killed
       THEN /\ procs' = Kill(procs, tunnel.process)
            /\ stops' = [stops EXCEPT ![k] = [pc |-> "term-wait", waits |-> tunnel.process]]
       ELSE /\ procs' = KillAllTunnelProcesses(procs)
            /\ stops' = [stops EXCEPT ![k] = [pc |-> "sleep", waits |-> 0]]
    /\ UNCHANGED <<starts, timers>>
    /\ UNCHANGED <<runVars, answerVars, hookVars, analyzerVars, scorerVars, clientVars>>

\* the process stop() waits for has exited: stop() goes on to the pkill
StopSeesExit(k) ==
    /\ stops[k].pc = "term-wait"
    /\ procs[stops[k].waits].state = "exited"
    /\ procs' = KillAllTunnelProcesses(procs)
    /\ stops' = [stops EXCEPT ![k].pc = "sleep"]
    /\ UNCHANGED <<tunnel, starts, timers, lastRequest>>
    /\ UNCHANGED <<runVars, answerVars, hookVars, analyzerVars, scorerVars, clientVars>>

\* the 3 s of stop() are over first: SIGKILL to the process the service holds
\* now, if it was not killed, and stop() goes on to the pkill
StopTimesOut(k) ==
    /\ stops[k].pc = "term-wait"
    /\ procs[stops[k].waits].state # "exited"
    /\ procs' = KillAllTunnelProcesses(
                    IF tunnel.process # 0 /\ ~procs[tunnel.process].killed
                    THEN Kill(procs, tunnel.process)
                    ELSE procs)
    /\ stops' = [stops EXCEPT ![k].pc = "sleep"]
    /\ UNCHANGED <<tunnel, starts, timers, lastRequest>>
    /\ UNCHANGED <<runVars, answerVars, hookVars, analyzerVars, scorerVars, clientVars>>

\* the 500 ms of stop() are over: the fields are cleared and stop() resolves
StopResolves(k) ==
    /\ stops[k].pc = "sleep"
    /\ tunnel' = [tunnel EXCEPT !.process = 0, !.url = 0]
    /\ stops' = [stops EXCEPT ![k].pc = "resolved"]
    /\ UNCHANGED <<procs, starts, timers, lastRequest>>
    /\ UNCHANGED <<runVars, answerVars, hookVars, analyzerVars, scorerVars, clientVars>>

TunnelNext ==
    \/ \E s \in StartIds : StartByMode(s)
    \/ \E s \in StartIds : AutoStartSkipped(s)
    \/ \E s \in StartIds : AutoStart(s)
    \/ \E s \in StartIds : StartResumes(s)
    \/ \E p \in Pids : HandleOutput(p)
    \/ \E p \in Pids : ProcessExits(p)
    \/ \E s \in StartIds : TimerRestarts(s)
    \/ TimerPasses
    \/ \E k \in StopIds : Stop(k)
    \/ \E k \in StopIds : StopSeesExit(k)
    \/ \E k \in StopIds : StopTimesOut(k)
    \/ \E k \in StopIds : StopResolves(k)

TunnelSpec == TunnelInit /\ [][TunnelNext]_vars

-----------------------------------------------------------------------------
(* The cached LINE client (src/unnamed/part_003, lines 4-40) and the settings *)
(* update that resets it (PUT / of the settings routes, lines 143-160),       *)
(* interleaved at every await. A token is a number, 0 is no token at all      *)
(* (neither in the setting row nor in the environment).                       *)

\* distinct access tokens the channel gets during one life of the server
MaxTokens == 2

\* calls of getLineClient during one life of the server
MaxGets == 2

\* settings updates during one life of the server
MaxUpdates == 2

Tokens == 1..MaxTokens

GetIds == 1..MaxGets

UpdateIds == 1..MaxUpdates

\* a call of getLineClient that was not made yet
NoGet == [pc |-> "idle", accessToken |-> 0, client |-> 0]

\* a settings update that was not requested yet
NoUpdate == [pc |-> "idle", accessToken |-> 0, channelSecret |-> FALSE]

\* the server has started: no client was built yet
ClientInit ==
    /\ RunIdle
    /\ settings.autoReply
    /\ group = [autoReplyEnabled |-> TRUE]
    /\ knowledge = [e \in EntryIds |-> "absent"]
    /\ AnswerIdle
    /\ HookIdle
    /\ AnalyzerIdle
    /\ ScorerIdle
    /\ TunnelIdle
    /\ accessToken \in {0, 1}
    /\ clientInstance = 0
    /\ getting = [g \in GetIds |-> NoGet]
    /\ updating = [u \in UpdateIds |-> NoUpdate]

\* getLineClient up to its await: the cached client is returned, or
\* getSettings() is called
GetLineClient(g) ==
    /\ g = FirstIdle(getting)
    /\ getting' = [getting EXCEPT
                      ![g] = IF clientInstance # 0
                             THEN [@ EXCEPT !.pc = "done", !.client = clientInstance]
                             ELSE [@ EXCEPT !.pc = "reading"]]
    /\ UNCHANGED <<accessToken, clientInstance, updating>>
    /\ UNCHANGED <<runVars, answerVars, hookVars, analyzerVars, scorerVars, tunnelVars>>

\* getSettings: prisma.setting.findMany() reads the rows
GetSettings(g) ==
    /\ getting[g].pc = "reading"
    /\ getting' = [getting EXCEPT ![g].pc = "read", ![g].accessToken = accessToken]
    /\ UNCHANGED <<accessToken, clientInstance, updating>>
    /\ UNCHANGED <<runVars, answerVars, hookVars, analyzerVars, scorerVars, tunnelVars>>

\* getLineClient after its await, no token: it throws
NotConfigured(g) ==
    /\ getting[g].pc = "read"
    /\ getting[g].accessToken = 0
    /\ getting' = [getting EXCEPT ![g].pc = "threw"]
    /\ UNCHANGED <<accessToken, clientInstance, updating>>
    /\ UNCHANGED <<runVars, answerVars, hookVars, analyzerVars, scorerVars, tunnelVars>>

\* getLineClient after its await: the client is built from the token that was
\* read, cached and returned
NewClient(g) ==
    /\ getting[g].pc = "read"
    /\ getting[g].accessToken # 0
    /\ clientInstance' = getting[g].accessToken
    /\ getting' = [getting EXCEPT ![g].pc = "done", ![g].client = getting[g].accessToken]
    /\ UNCHANGED <<accessToken, updating>>
    /\ UNCHANGED <<runVars, answerVars, hookVars, analyzerVars, scorerVars, tunnelVars>>

\* PUT /: updateSettings(updates) commits its transaction; the updates hold a
\* new access token (0 if they hold none) and perhaps a channel secret
UpdateSettings(u) ==
    /\ u = FirstIdle(updating)
    /\ \E t \in Tokens \cup {0}, secret \in BOOLEAN :
          /\ updating' = [updating EXCEPT
                             ![u] = [pc |-> "updated", accessToken |-> t,
                                     channelSecret |-> secret]]
          /\ accessToken' = IF t # 0 THEN t ELSE accessToken
    /\ UNCHANGED <<clientInstance, getting>>
    /\ UNCHANGED <<runVars, answerVars, hookVars, analyzerVars, scorerVars, tunnelVars>>

\* PUT / after its await: resetClient() if the updates hold a LINE setting
ResetClient(u) ==
    /\ updating[u].pc = "updated"
    /\ updating' = [updating EXCEPT ![u].pc = "done"]
    /\ clientInstance' = IF updating[u].accessToken # 0 \/ updating[u].channelSecret
                         THEN 0
                         ELSE clientInstance
    /\ UNCHANGED <<accessToken, getting>>
    /\ UNCHANGED <<runVars, answerVars, hookVars, analyzerVars, scorerVars, tunnelVars>>

ClientNext ==
    \/ \E g \in GetIds : GetLineClient(g)
    \/ \E g \in GetIds : GetSettings(g)
    \/ \E g \in GetIds : NotConfigured(g)
    \/ \E g \in GetIds : NewClient(g)
    \/ \E u \in UpdateIds : UpdateSettings(u)
    \/ \E u \in UpdateIds : ResetClient(u)

ClientSpec == ClientInit /\ [][ClientNext]_vars

-----------------------------------------------------------------------------
(* Vocabulary of the properties, written from the stored rows and inputs *)

Threshold == settings.confidenceThreshold

\* the knowledge search of the run has returned
Searched == searchResults # <<>>

\* the i-th searched question got a knowledge result at or above the threshold
AnsweredAt(i) == searchResults[i].found /\ searchResults[i].confidence >= Threshold

\* the i-th searched question got a knowledge result below the threshold
PartialAt(i) == searchResults[i].found /\ searchResults[i].confidence < Threshold

AnyAnswered == \E i \in DOMAIN searchResults : AnsweredAt(i)

\* the answer text of the i-th result
AnswerAt(i) ==
    IF searchResults[i].generatedAnswer # <<>>
    THEN searchResults[i].generatedAnswer
    ELSE searchResults[i].entryAnswer

\* the configured 'cannot answer' text, or its default
Fallback ==
    IF settings.notFoundReply = <<>> THEN DefaultNotFoundReply ELSE settings.notFoundReply

\* the analyzer detects an unanswered question with confidence >= threshold
Detected == analysis.hasUnansweredQuestion /\ analysis.confidence >= Threshold

-----------------------------------------------------------------------------
(* C1 *)

-----------------------------------------------------------------------------
(* C2 *)

\* C2: in a group chat without a bot-name mention, an analyzer confidence below the
\* threshold ends with no reply and no Issue, and a detected question with
\* confidence equal to the threshold ends with an Issue (runs in which no
\* collaborator failed).
C2_ThresholdBoundary ==
    (pc = "done" /\ failed = "none" /\ ~Forced) =>
        /\ analysis.confidence < Threshold => (replies = <<>> /\ issues = <<>>)
        /\ (analysis.hasUnansweredQuestion /\ analysis.confidence = Threshold)
              => Len(issues) = 1

-----------------------------------------------------------------------------
(* C3 *)

\* C3: when the group has auto-reply disabled, a message whose question was
\* detected with confidence >= threshold still gets an Issue, and no reply is sent.
C3_DisabledGroupStillTracks ==
    (pc = "done" /\ failed = "none" /\ ~group.autoReplyEnabled /\ ~Forced /\ Detected)
        => (Len(issues) = 1 /\ replies = <<>>)

-----------------------------------------------------------------------------
(* C4 *)

\* C4: whenever the question-confidence test passed, the run ends with exactly one
\* Issue, REPLIED with repliedAt set iff a reply was sent and PENDING with repliedAt
\* unset otherwise, also when sending the reply or writing the log failed.
C4_OneIssuePerPassedTest ==
    (/\ pc = "done"
     /\ isQuestion
     /\ questionConfidence >= Threshold
     /\ failed \in {"none", "send", "log"}) =>
        /\ Len(issues) = 1
        /\ replies # <<>> => (issues[1].status = "REPLIED" /\ issues[1].repliedAt = "now")
        /\ replies = <<>> => (issues[1].status = "PENDING" /\ issues[1].repliedAt = "unset")

-----------------------------------------------------------------------------
(* C5 *)

\* C5: every run whose knowledge search returned appends exactly one AutoReplyLog
\* row, whether or not a reply was sent (the log write itself not failing).
C5_OneLogPerRun ==
    (pc = "done" /\ Searched /\ failed # "log") => Len(logs) = 1

-----------------------------------------------------------------------------
(* C6 *)

\* C6: a reply sent with no answered question is exactly the configured fallback
\* text (or its default), and the row logged for it has matched = false and
\* knowledgeId = null.
C6_FallbackReplyWhenNothingAnswered ==
    (replies # <<>> /\ ~AnyAnswered) =>
        /\ replies[1] = Fallback
        /\ \A i \in DOMAIN logs :
              /\ logs[i].matched = FALSE
              /\ logs[i].knowledgeId = NullId
              /\ logs[i].answer = Fallback

\* bot named, the only match is below the threshold, fallback sent and logged
C6_Witness ==
    /\ pc = "done"
    /\ event.botNameMentioned
    /\ Len(replies) = 1
    /\ Len(logs) = 1
    /\ ~AnyAnswered
    /\ \E i \in DOMAIN searchResults : PartialAt(i)

-----------------------------------------------------------------------------
(* C7 *)

KnowledgeBaseEmpty == \A e \in EntryIds : knowledge[e] = "absent"

-----------------------------------------------------------------------------
(* C8 *)

\* text contains part as a contiguous run
Contains(text, part) ==
    \E k \in 0..(Len(text) - Len(part)) : SubSeq(text, k + 1, k + Len(part)) = part

\* the reply shows the answer of the i-th searched question
ShownAt(i) ==
    /\ replies # <<>>
    /\ IF Len(searchResults) = 1
       THEN replies[1] = AnswerAt(i)
       ELSE \E n \in 1..Len(searchResults) :
               Contains(replies[1],
                        <<"[Q", Digits[n], "]">> \o searchResults[i].question
                            \o <<"\n">> \o AnswerAt(i))

-----------------------------------------------------------------------------
(* C9 *)

\* C9: the questions searched are the last min(3, n) unanswered questions when
\* n > 1, otherwise the single extracted question (the only unanswered question,
\* or the raw message text); never more than 3; each result belongs to its own
\* question.
C9_QuestionsSearched ==
    Searched =>
        LET n == Len(unansweredQuestions)
            k == Min(3, n)
        IN /\ Len(searchResults) <= 3
           /\ n > 1 =>
                 /\ Len(searchResults) = k
                 /\ \A i \in 1..k :
                       searchResults[i].question = unansweredQuestions[n - k + i]
           /\ n <= 1 =>
                 /\ Len(searchResults) = 1
                 /\ searchResults[1].question =
                       IF n = 1 /\ unansweredQuestions[1] # <<>>
                       THEN unansweredQuestions[1]
                       ELSE RawMessage
           /\ \A i \in DOMAIN searchResults :
                 (searchResults[i].found /\ searchResults[i].generatedAnswer # <<>>)
                    => searchResults[i].generatedAnswer
                          = GeneratedAnswer(searchResults[i].question)

\* four unanswered questions were reported and the search returned
C9_Witness ==
    /\ Searched
    /\ Len(unansweredQuestions) = 4
    /\ Len(searchResults) = 3

-----------------------------------------------------------------------------
(* C10 *)

\* the block the reply holds for the i-th searched question, numbered n
BlockAt(n, i) ==
    <<"[Q", Digits[n], "]">> \o searchResults[i].question \o <<"\n">>
        \o (IF AnsweredAt(i) THEN AnswerAt(i) ELSE Fallback)

\* the single-question part of C10: the answer, or the fallback, verbatim
SingleReplyVerbatim ==
    (replies # <<>> /\ Len(searchResults) = 1) =>
        replies[1] = IF AnsweredAt(1) THEN AnswerAt(1) ELSE Fallback

\* C10 as stated: a reply to several searched questions is one numbered block per
\* question in the questions' original oldest-first order.
C10_BlocksInOriginalOrder ==
    /\ SingleReplyVerbatim
    /\ (replies # <<>> /\ Len(searchResults) > 1) =>
          replies[1] = Join([i \in 1..Len(searchResults) |-> BlockAt(i, i)], <<"\n\n">>)

\* number of answered questions among the first i searched
RECURSIVE AnsweredUpTo(_)
AnsweredUpTo(i) ==
    IF i = 0 THEN 0 ELSE AnsweredUpTo(i - 1) + (IF AnsweredAt(i) THEN 1 ELSE 0)

\* the place of the i-th searched question in the reply: answered questions
\* first, then the others, each group in its original order
PlaceOf(i) ==
    IF AnsweredAt(i)
    THEN AnsweredUpTo(i)
    ELSE AnsweredUpTo(Len(searchResults)) + (i - AnsweredUpTo(i))

\* C10 amended: the reply to a single searched question is its answer or the
\* fallback verbatim; a reply to several is one numbered block per searched
\* question, the answered questions first and then the unanswered ones (each
\* group oldest first), numbered in that order.
C10_BlocksAnsweredFirst ==
    /\ SingleReplyVerbatim
    /\ (replies # <<>> /\ Len(searchResults) > 1) =>
          \E order \in [1..Len(searchResults) -> 1..Len(searchResults)] :
             /\ \A i \in 1..Len(searchResults) : order[PlaceOf(i)] = i
             /\ replies[1] =
                   Join([n \in 1..Len(searchResults) |-> BlockAt(n, order[n])], <<"\n\n">>)

\* a reply to two or more questions whose first question is not answered and a
\* later one is
C10_Witness ==
    /\ pc = "done"
    /\ replies # <<>>
    /\ Len(searchResults) > 1
    /\ ~AnsweredAt(1)
    /\ AnsweredAt(2)

-----------------------------------------------------------------------------
(* Vocabulary of the properties about answerQuestion *)

\* the call got a result from the generator and applied the safety check to it
PassedFilter(c) ==
    /\ call[c].pc \in {"update", "returned"}
    /\ call[c].entriesToUse # <<>>
    /\ call[c].failures \cap {"generator", "lexical"} = {}

\* the numbers of question marks and of bullet markers the generator's answer holds
QuestionMarksIn(c) ==
    Cardinality({k \in DOMAIN call[c].generated.answer :
                    call[c].generated.answer[k] \in {"?", "?w"}})

BulletsIn(c) ==
    Cardinality({k \in DOMAIN call[c].generated.answer :
                    call[c].generated.answer[k] \in {"*b", "*m"}})

-----------------------------------------------------------------------------
(* C11 *)

\* C11 as stated: a generator result whose answer holds at least 3 question marks
\* or at least 5 bullet markers leaves the safety filter with canAnswer = false
\* and confidence = 0 whatever the generator reported, its answer text unchanged;
\* an answer with 2 question marks and 4 bullets passes with what was reported.
C11_RejectedWhateverReported ==
    \A c \in DOMAIN call :
        PassedFilter(c) =>
            /\ (QuestionMarksIn(c) >= 3 \/ BulletsIn(c) >= 5) =>
                  /\ call[c].result.canAnswer = FALSE
                  /\ call[c].result.confidence = 0
                  /\ call[c].result.answer = call[c].generated.answer
            /\ (QuestionMarksIn(c) = 2 /\ BulletsIn(c) = 4) =>
                  call[c].result = call[c].generated

\* C11 amended: a generator result reported with canAnswer = true whose answer
\* holds at least 3 question marks or at least 5 bullet markers leaves the filter
\* with canAnswer = false and confidence = 0, answer text and sources unchanged;
\* every other result leaves it as reported: one with 2 question marks and 4
\* bullets, and one reported with canAnswer = false, which keeps the confidence
\* the generator reported.
C11_RejectedWhenReportedAnswerable ==
    \A c \in DOMAIN call :
        PassedFilter(c) =>
            IF /\ call[c].generated.canAnswer
               /\ (QuestionMarksIn(c) >= 3 \/ BulletsIn(c) >= 5)
            THEN /\ call[c].result.canAnswer = FALSE
                 /\ call[c].result.confidence = 0
                 /\ call[c].result.answer = call[c].generated.answer
                 /\ call[c].result.sources = call[c].generated.sources
            ELSE call[c].result = call[c].generated

\* an answer with five bullet markers reported as an answer with confidence 80
\* was rejected
C11_Witness ==
    \E c \in DOMAIN call :
        /\ call[c].pc = "returned"
        /\ PassedFilter(c)
        /\ call[c].generated.canAnswer
        /\ call[c].generated.confidence = 80
        /\ BulletsIn(c) = 5
        /\ QuestionMarksIn(c) = 0
        /\ ~call[c].result.canAnswer

-----------------------------------------------------------------------------
(* C12 *)

\* the call has chosen the candidates it hands to the generator
HasCandidates(c) == call[c].pc \in {"generate", "update", "returned"} /\ call[c].entriesToUse # <<>>

\* C12: in a call whose vector search returned at least one result, the lexical
\* path (loading the active entries, keyword scoring) is never run and the
\* candidates are the vector results; the candidates of a call come from exactly
\* one of the two paths: the lexical path runs only after a vector search without
\* results.
C12_OnePathOnly ==
    \A c \in DOMAIN call :
        /\ Len(call[c].vectorResults) > 0 =>
              /\ ~call[c].lexicalRan
              /\ call[c].entries = <<>>
              /\ call[c].pc # "lexical"
              /\ call[c].pc \in {"generate", "update", "returned"}
              /\ call[c].entriesToUse = call[c].vectorResults
        /\ HasCandidates(c) => (call[c].lexicalRan <=> call[c].vectorResults = <<>>)

\* an index exists, the vector search returned two entries and the call answered
C12_Witness ==
    \E c \in DOMAIN call :
        /\ call[c].pc = "returned"
        /\ Len(call[c].vectorResults) = 2
        /\ ~call[c].lexicalRan
        /\ call[c].result.canAnswer

-----------------------------------------------------------------------------
(* C13 *)

\* the score the Lexical Scorer gives the k-th candidate of the call
CandidateScore(c, k) == ScoreOf(call[c].query, call[c].entriesToUse[k])

\* the candidates of the call come from the lexical path
LexicalCandidatesChosen(c) == HasCandidates(c) /\ call[c].lexicalRan

\* the candidates of the call are in descending order of score
Descending(c) ==
    \A j, k \in DOMAIN call[c].entriesToUse :
        j < k => CandidateScore(c, j) >= CandidateScore(c, k)

\* C13 as stated: on the lexical path every candidate handed to the generator
\* scores more than 0 for the query, the candidates are in descending score order
\* and there are at most 10 of them.
C13_CandidatesAllScore ==
    \A c \in DOMAIN call :
        LexicalCandidatesChosen(c) =>
            /\ \A k \in DOMAIN call[c].entriesToUse : CandidateScore(c, k) > 0
            /\ Descending(c)
            /\ Len(call[c].entriesToUse) <= 10

\* the entries findMany returned to the call that score more than 0
Scoring(c) ==
    {k \in DOMAIN call[c].entries : ScoreOf(call[c].query, call[c].entries[k]) > 0}

\* C13 amended: when at least one loaded entry scores more than 0, the candidates
\* are the (at most 5) best scoring entries, each with a score above 0, in
\* descending score order, and no entry left out scores more than a candidate;
\* when no loaded entry scores above 0, the candidates are the first (at most 5)
\* loaded entries, all scoring 0. There are never more than 5 candidates.
C13_CandidatesScoreOrAllZero ==
    \A c \in DOMAIN call :
        LexicalCandidatesChosen(c) =>
            /\ Len(call[c].entriesToUse) <= 5
            /\ Descending(c)
            /\ \A k \in DOMAIN call[c].entriesToUse :
                  \E j \in DOMAIN call[c].entries :
                      call[c].entries[j] = call[c].entriesToUse[k]
            /\ IF Scoring(c) # {}
               THEN /\ Len(call[c].entriesToUse) = Min(5, Cardinality(Scoring(c)))
                    /\ \A k \in DOMAIN call[c].entriesToUse : CandidateScore(c, k) > 0
                    /\ \A j \in DOMAIN call[c].entries :
                          (\A k \in DOMAIN call[c].entriesToUse :
                               call[c].entriesToUse[k] # call[c].entries[j])
                          => \A k \in DOMAIN call[c].entriesToUse :
                                 CandidateScore(c, k)
                                     >= ScoreOf(call[c].query, call[c].entries[j])
               ELSE /\ call[c].entriesToUse
                          = SubSeq(call[c].entries, 1, Min(5, Len(call[c].entries)))
                    /\ \A k \in DOMAIN call[c].entriesToUse : CandidateScore(c, k) = 0

\* six loaded entries score for the course question: the five best are handed on,
\* the entries with the question itself before those that only name it
C13_Witness ==
    \E c \in DOMAIN call :
        /\ LexicalCandidatesChosen(c)
        /\ call[c].query = CourseQuery
        /\ Len(call[c].entries) = 7
        /\ Len(call[c].entriesToUse) = 5
        /\ CandidateScore(c, 3) > CandidateScore(c, 4)
        /\ CandidateScore(c, 5) > 0

-----------------------------------------------------------------------------
(* C14 *)

\* C14: a call in which the vector search, the lexical lookup or the generator
\* failed does not throw; after a failure of the lexical lookup or of the
\* generator it returns canAnswer = false with confidence 0 and no answer; a
\* failure of the vector search alone sends the call to the lexical path.
C14_FailuresEndInCannotAnswer ==
    \A c \in DOMAIN call :
        /\ call[c].pc = "thrown" => "group" \in call[c].failures
        /\ (call[c].failures \cap {"lexical", "generator"} # {}) =>
              /\ call[c].pc = "returned"
              /\ call[c].result.canAnswer = FALSE
              /\ call[c].result.confidence = 0
              /\ call[c].result.answer = <<>>
              /\ call[c].result.sources = <<>>
        /\ "vector" \in call[c].failures =>
              /\ call[c].vectorResults = <<>>
              /\ call[c].pc = "lexical" \/ call[c].lexicalRan

\* the vector search failed and the call answered from the lexical path
C14_Witness ==
    \E c \in DOMAIN call :
        /\ call[c].pc = "returned"
        /\ call[c].failures = {"vector"}
        /\ call[c].lexicalRan
        /\ call[c].result.canAnswer
        /\ call[c].result.confidence = 80

-----------------------------------------------------------------------------
(* C16 *)

\* the call takes the step in which a retrieval path hands over its candidates
Retrieves(c) == call[c].pc \in {"vector", "lexical"} /\ call'[c].pc = "generate"

\* C16: whenever a retrieval path hands over its candidates, every candidate is
\* an entry with isActive = true in the table at that moment, whatever queries
\* and (de)activations came before; and the sources of a result are always among
\* the candidates of its call.
C16_InactiveNeverRetrieved ==
    [][\A c \in DOMAIN call :
          /\ Retrieves(c) =>
                /\ call'[c].entriesToUse # <<>>
                /\ \A k \in DOMAIN call'[c].entriesToUse :
                      knowledgeEntry[call'[c].entriesToUse[k]].isActive
          /\ \A k \in DOMAIN call'[c].result.sources :
                \E j \in DOMAIN call'[c].entriesToUse :
                    call'[c].entriesToUse[j] = call'[c].result.sources[k]]_vars

\* an entry that scores for the query was switched off before the lexical path
\* read the table, and the call answered from the entries left
C16_Witness ==
    \E c \in DOMAIN call :
        /\ call[c].pc = "returned"
        /\ call[c].lexicalRan
        /\ call[c].result.sources # <<>>
        /\ edits = 1
        /\ Len(call[c].entries) = 2
        /\ \E id \in DOMAIN knowledgeEntry :
              /\ id <= 3
              /\ ~knowledgeEntry[id].isActive
              /\ ScoreOf(call[c].query, id) > 0
              /\ \A k \in DOMAIN call[c].entries : call[c].entries[k] # id

-----------------------------------------------------------------------------
(* C17 *)

\* number of times the call updated the usage statistics of the entry
TimesUpdated(c, id) ==
    Cardinality({k \in DOMAIN call[c].updated : call[c].updated[k] = id})

\* number of successful citations of the entry by all calls
Citations(id) == SumOf([c \in DOMAIN call |-> TimesUpdated(c, id)])

-----------------------------------------------------------------------------
(* C18 *)

\* C18: a failed update of the usage statistics does not end the call: the
\* result stays the generated answer with its canAnswer and confidence, the loop
\* goes on through every cited entry, and the call returns that result.
C18_UpdateFailureSwallowed ==
    \A c \in DOMAIN call :
        /\ "update" \in call[c].failures =>
              /\ call[c].pc \in {"update", "returned"}
              /\ call[c].result = call[c].generated
              /\ call[c].result.canAnswer
        /\ (call[c].pc = "returned" /\ call[c].result.canAnswer
                /\ call[c].result.sources # <<>>) =>
              /\ call[c].next = Len(call[c].result.sources) + 1
              /\ Len(call[c].updated) <= Len(call[c].result.sources)
              /\ "update" \notin call[c].failures
                    => call[c].updated = call[c].result.sources

\* the update of the first cited entry failed, the second cited entry was still
\* updated, and the call returned its answer
C18_Witness ==
    \E c \in DOMAIN call :
        /\ call[c].pc = "returned"
        /\ "update" \in call[c].failures
        /\ Len(call[c].result.sources) = 2
        /\ call[c].updated = <<call[c].result.sources[2]>>
        /\ call[c].result.sources[1] # call[c].result.sources[2]
        /\ call[c].result.canAnswer
        /\ call[c].result.confidence = 80
        /\ knowledgeEntry[call[c].result.sources[2]].usageCount >= 1

-----------------------------------------------------------------------------
(* Vocabulary of the properties about the webhook *)

\* the request went through every event of its batch
BatchDone(d) == delivery[d].at = Len(delivery[d].events) + 1

\* the lineMessageIds handleAutoReply was called for
MessagesRun == {runs[i] : i \in DOMAIN runs}

\* C15: no failure while an event is handled escapes. A failure inside
\* handleAutoReply ends the run by a return (the request that called it is still
\* waiting for it, not aborted); no request is ever answered by an error of the
\* handlers; a request is answered success only after every event of its batch
\* was taken up, and the only other answers are the rejections of the signature
\* check before the first event.
C15_NoFailureEscapes ==
    /\ failed # "none" =>
          /\ pc = "done"
          /\ running \in DOMAIN delivery
          /\ delivery[running].pc = "running"
    /\ \A d \in DOMAIN delivery :
          /\ delivery[d].response \in {"none", "400", "403", "success"}
          /\ delivery[d].response = "success" <=>
                (delivery[d].pc = "responded" /\ BatchDone(d))
          /\ delivery[d].response \in {"400", "403"} =>
                (delivery[d].pc = "responded" /\ delivery[d].at = 1)
          /\ delivery[d].response = "none" => delivery[d].pc # "responded"

\* a request of two events answered success: the handler of its first event
\* threw before the message was stored, its second event was still handled, and
\* in the run of that event the reply was sent and the log write failed
C15_Witness ==
    \E d \in DOMAIN delivery :
        /\ delivery[d].response = "success"
        /\ Len(delivery[d].events) = 2
        /\ delivery[d].events[1].isText
        /\ delivery[d].events[1].id \notin message
        /\ runs = <<delivery[d].events[2].id>>
        /\ Len(replies) = 1
        /\ logs = <<>>
        /\ issues = <<>>

\* C19: a message delivered twice, one delivery after the other or the two
\* interleaved, gets at most one call of handleAutoReply, and the replies, logs
\* and Issues are at most one for each message that got a call.
C19_OneRunPerMessage ==
    /\ \A i, j \in DOMAIN runs : runs[i] = runs[j] => i = j
    /\ MessagesRun \subseteq message
    /\ Len(replies) <= Cardinality(MessagesRun)
    /\ Len(logs) <= Cardinality(MessagesRun)
    /\ Len(issues) <= Cardinality(MessagesRun)

\* the interleaved case: a request found no row for the message and is about to
\* create it, while another request has stored the same message since and its
\* run has replied, logged and created the Issue
C19_Witness ==
    \E d \in DOMAIN delivery :
        /\ delivery[d].pc = "create"
        /\ CurrentEvent(d).isText
        /\ CurrentEvent(d).id \in message
        /\ runs = <<CurrentEvent(d).id>>
        /\ running = 0
        /\ Len(replies) = 1
        /\ Len(logs) = 1
        /\ Len(issues) = 1

\* C20: handleAutoReply only creates Issues: in every step every Issue that
\* exists is still there afterwards with the same status and fields.
C20_ExistingIssuesUnchanged ==
    [][\A i \in DOMAIN issues : i \in DOMAIN issues' /\ issues'[i] = issues[i]]_vars

\* the run of a second message has created its Issue, as replied, next to the
\* pending Issue of the first message
C20_Witness ==
    /\ Len(issues) = 2
    /\ Len(runs) = 2
    /\ issues[1].status = "PENDING"
    /\ issues[2].status = "REPLIED"

-----------------------------------------------------------------------------
(* Vocabulary of the properties about the bot-name check and the analyzer *)

\* the names a bot.name setting lists: the trimmed pieces between its commas
ConfiguredNames ==
    IF botName = NullText THEN {}
    ELSE {Trim(SubSeq(botName, i, j)) :
            <<i, j>> \in {p \in (1..(Len(botName) + 1)) \X (0..Len(botName)) :
                            /\ p[1] <= p[2] + 1
                            /\ \A k \in p[1]..p[2] : botName[k] # ","
                            /\ p[1] = 1 \/ botName[p[1] - 1] = ","
                            /\ p[2] = Len(botName) \/ botName[p[2] + 1] = ","}}

\* the message text contains one of the names, whatever the case of the letters
Named ==
    \E n \in ConfiguredNames :
        n # EmptyText /\ Includes(ToLowerCase(content), ToLowerCase(n))

\* the run went through the bot-name check and the question detection
Analyzed ==
    /\ group.autoReplyEnabled
    /\ pc \notin {"start", "analyze"}
    /\ failed # "settings"

\* C21: the bot counts as named exactly when the message text contains, in any
\* case, a non-empty trimmed name of the comma-separated bot.name setting (never
\* with an unset, empty or blank setting); a run for a message that names the
\* bot takes the message as a question of confidence 100 whatever the analyzer
\* would report, and with auto-reply on it goes on to the knowledge search
\* instead of ending as noise.
C21_NamedForcesEngagement ==
    /\ event.botNameMentioned <=> Named
    /\ botName \in NoNames => ~event.botNameMentioned
    /\ (Named /\ Analyzed) =>
          /\ isQuestion
          /\ questionConfidence = ForcedConfidence
          /\ unansweredQuestions = <<>>
    /\ (Named /\ Analyzed /\ settings.autoReply /\ pc = "done" /\ failed = "none") =>
          searchResults # <<>>

\* a group message names the bot in another case than configured, the analyzer
\* would report no question, and the run searched and replied
C21_Witness ==
    /\ Named
    /\ content = <<"h", "i", " ", "a", "A", "!">>
    /\ botName = <<"x", "x", ",", " ", "A", "a", " ">>
    /\ ~event.isPrivateChat
    /\ reported = NothingReported
    /\ ~analysis.hasUnansweredQuestion
    /\ pc = "done"
    /\ failed = "none"
    /\ questionConfidence = ForcedConfidence
    /\ Len(replies) = 1

-----------------------------------------------------------------------------
(* C22 *)

\* C22: when the analysis of the conversation failed, the analyzer reports a
\* possible question with confidence exactly 50, and whatever the configured
\* threshold the run of an enabled group that ends without another failure has
\* written an Issue or an AutoReplyLog for the message.
C22_FailedAnalysisStillTracked ==
    (reported # <<>> /\ reported.threw) =>
        /\ analysis.hasUnansweredQuestion
        /\ analysis.confidence = FailSafeConfidence
        /\ (~Forced /\ group.autoReplyEnabled /\ pc = "done" /\ failed = "none")
              => (issues # <<>> \/ logs # <<>>)

-----------------------------------------------------------------------------
(* C23 *)

\* the analyzer was consulted and its provider returned a report
Consulted == reported # <<>> /\ ~reported.threw

\* list holds exactly the questions of all that are tagged unanswered, in the
\* order of all
IsOpenList(list, all) ==
    /\ Len(list) = Cardinality({i \in DOMAIN all : all[i].status = "unanswered"})
    /\ \E f \in [DOMAIN list -> DOMAIN all] :
          /\ \A k \in DOMAIN list :
                /\ all[f[k]].status = "unanswered"
                /\ list[k] = all[f[k]].question
          /\ \A k, l \in DOMAIN list : k < l => f[k] < f[l]

NoneOpen(all) == \A i \in DOMAIN all : all[i].status # "unanswered"

\* the questions of the report tagged answered or abandoned
Resolved ==
    {reported.allQuestions[i].question :
        i \in {j \in DOMAIN reported.allQuestions :
                  reported.allQuestions[j].status # "unanswered"}}

\* the questions the run searched
QuestionsSearched == {searchResults[i].question : i \in DOMAIN searchResults}

-----------------------------------------------------------------------------
(* C24 *)

\* the percentage nearest to a fraction given in thousandths, halves upwards
NearestPercent(thousandths) ==
    CHOOSE n \in 0..100 : 10 * n - 5 <= thousandths /\ thousandths < 10 * n + 5

\* the confidence the analyzer is to return for the report
ExpectedConfidence ==
    IF ~reported.hasConfidence THEN 0
    ELSE IF 0 < reported.confidence /\ reported.confidence <= Thousandth
         THEN NearestPercent(reported.confidence)
         ELSE reported.confidence \div Thousandth

\* C24: a reported confidence c with 0 < c <= 1 becomes round(c * 100), 1.0
\* becoming 100; every other reported value is returned unchanged and a missing
\* one as 0; the run compares the threshold with the normalised value.
C24_ConfidenceNormalised ==
    Consulted =>
        /\ analysis.confidence = ExpectedConfidence
        /\ (reported.hasConfidence /\ reported.confidence = Thousandth)
              => analysis.confidence = 100
        /\ (Analyzed /\ ~Forced) => questionConfidence = ExpectedConfidence
        /\ (Analyzed /\ ~Forced /\ settings.autoReply /\ pc = "done" /\ failed = "none")
              => (Searched <=> (reported.hasUnansweredQuestion
                                  /\ ExpectedConfidence >= Threshold))

\* a confidence reported as 0.8 passed the threshold 70 as 80 and the run
\* searched
C24_Witness ==
    /\ Consulted
    /\ reported.hasConfidence
    /\ reported.confidence = 800
    /\ Threshold = 70
    /\ ~Forced
    /\ questionConfidence = 80
    /\ Searched
    /\ pc = "done"
    /\ failed = "none"

-----------------------------------------------------------------------------
(* Vocabulary of the properties about the tokenizer and the scorer *)

\* the query was tokenized
Tokenized == scoring # <<>> /\ scoring.pc # "tokenize"

\* the entry was scored
Scoring1Done == scoring # <<>> /\ scoring.pc \in {"filter", "done"}

\* the token is in the question field of the entry
InQuestion(t, entry) == Includes(ToLowerCase(entry.question), t)

\* the token is in the answer field of the entry and in no other field
OnlyInAnswer(t, entry) ==
    /\ Includes(ToLowerCase(entry.answer), t)
    /\ ~InQuestion(t, entry)
    /\ \A k \in entry.keywords : ~Includes(ToLowerCase(k), t) /\ ~Includes(t, ToLowerCase(k))

\* C25: a token of length >= 2 found in the question field of an entry adds at
\* least as much to the score as the same token adds when it is found only in
\* the answer field of an entry, however often it occurs there.
C25_QuestionOutweighsAnswer ==
    Scoring1Done =>
        \A t \in Scored(Elements(scoring.tokens)) :
            OnlyInAnswer(t, scoring.entry) =>
                \A e \in ScorerEntries :
                    InQuestion(t, e) =>
                        CalculateMatchScore({t}, e).score
                            >= CalculateMatchScore({t}, scoring.entry).score

-----------------------------------------------------------------------------
(* C26 *)

\* the lower-cased text with its punctuation taken out
Stripped(text) == SelectSeq(ToLowerCase(text), LAMBDA c : c \notin Punctuation)

NoDuplicates(list) == \A i, j \in DOMAIN list : list[i] = list[j] => i = j

\* the tokens are those of the normalised text
IsTokenization(list, normalised) ==
    /\ NoDuplicates(list)
    /\ Elements(list) =
          {w \in Words(normalised) : w \notin STOP_WORDS}
          \cup {g \in UNION {Segments(w) : w \in {v \in Words(normalised) : HasChinese(v)}} :
                  g \notin STOP_WORDS}
    /\ \A t \in Elements(list) : t \notin STOP_WORDS /\ Includes(normalised, t)

-----------------------------------------------------------------------------
(* C27 *)

\* C27: the query 'How do I set up a course' scores above 0 against the entry
\* 'How to create a course' with the keyword 'course creation', and the score
\* filter keeps the entry.
C27_SetUpCourseFindsCourseEntry ==
    (scoring # <<>> /\ scoring.pc = "done"
        /\ scoring.query = SetUpCourseQuery /\ scoring.entry = CourseEntry)
        => (scoring.result.score > 0 /\ scoring.kept)

-----------------------------------------------------------------------------
(* Vocabulary of the tunnel claims *)

\* the process runs: it was spawned and neither signalled nor exited
Live(p) == procs[p].state = "alive"

\* stop() was the last request made and every call of stop() has resolved
StopResolved ==
    /\ lastRequest = "stop"
    /\ \A k \in StopIds : stops[k].pc \in {"idle", "resolved"}

\* the live process spawned last (0 if no process is live)
LastLive ==
    IF \E p \in Pids : Live(p)
    THEN CHOOSE p \in Pids : Live(p) /\ \A q \in Pids : Live(q) => q <= p
    ELSE 0

-----------------------------------------------------------------------------
(* C28: once stop() has been called, the automatic-restart logic starts no   *)
(* tunnel process: after stop() has resolved, and as long as no start is     *)
(* requested, no process spawned through autoStart is running (each pkill of *)
(* stop() signals every process spawned before it, so such a process was     *)
(* spawned after the call of stop()).                                        *)
C28_NoAutoStartedTunnelAfterStop ==
    StopResolved => \A p \in Pids : Live(p) => procs[p].by # "auto"

-----------------------------------------------------------------------------
(* C29: the tunnel service never has more than one spawned cloudflared       *)
(* process running, and its process reference designates the running process *)
(* spawned last, under any interleaving of start calls, stop calls, exit     *)
(* events and restart timers.                                                *)
C29_OneProcessAndItIsReferenced ==
    /\ Cardinality({p \in Pids : Live(p)}) <= 1
    /\ LastLive # 0 => tunnel.process = LastLive

-----------------------------------------------------------------------------
(* C30: after a settings update that changes the LINE access token           *)
(* (updateSettings, then resetClient), the cached client is never one built  *)
(* from the old token, whatever a getLineClient call in flight during the    *)
(* update does: whenever no update stands between its commit and its reset,  *)
(* the cached client, if there is one, was built from the token the settings *)
(* hold.                                                                     *)
C30_CachedClientOfCurrentToken ==
    (\A u \in UpdateIds : updating[u].pc # "updated")
        => clientInstance \in {0, accessToken}

====
